---- MODULE Spec2Model ----
(***************************************************************************)
(* Collaborative editor: the socket.io server (per-document session store  *)
(* and broadcast routing) and the Quill client (local content, cached      *)
(* remote cursors and highlights, position transform).                     *)
(***************************************************************************)
EXTENDS Integers, Sequences, FiniteSets, TLC

(***************************************************************************)
(* Bounds                                                                  *)
(***************************************************************************)
\* longest operation sequence handed to the position transform
MaxOps == 3
\* largest Retain count handed to the position transform
MaxRetain == 5
\* largest Insert length / Delete count handed to the position transform
MaxCount == 3
\* largest position / range start handed to the position transform
MaxPos == 6
\* largest range length handed to the range transform
MaxRangeLen == 2
\* user actions in a run (edits, selections, reset requests, departures)
MaxActions == 2
\* local edits in a run
MaxEdits == 2
\* user selection changes in a run
MaxSelects == 1
\* reset requests in a run
MaxResets == 1
\* connections closed in a run
MaxCloses == 1

(***************************************************************************)
(* Plain helpers                                                           *)
(***************************************************************************)
Max(a, b) == IF a >= b THEN a ELSE b

Min(a, b) == IF a <= b THEN a ELSE b

(***************************************************************************)
(* Operations of a Quill delta.  Every op is a record of one shape; the    *)
(* field t names the key the JavaScript object carries (retain, insert or  *)
(* delete), n is the count of a retain/delete, s the text of an insert.    *)
(***************************************************************************)
Retain(k) == [t |-> "retain", n |-> k, s |-> <<>>]

Insert(str) == [t |-> "insert", n |-> 0, s |-> str]

Delete(k) == [t |-> "delete", n |-> k, s |-> <<>>]

(***************************************************************************)
(* The connections (socket ids), the documents and the text typed.  Each   *)
(* connection is one mounted CollaborativeEditor: it has the documentId     *)
(* prop and the user object the component generated.                       *)
(***************************************************************************)
Conns == {"s1", "s2", "s3"}

Docs == {"d1", "d2"}

\* the character a connection's user types
CharOf(c) == IF c = "s1" THEN "a" ELSE IF c = "s2" THEN "b" ELSE "c"

\* the connections whose users edit, select, ask for a reset, leave
Editors == {"s1", "s2"}

Selectors == {"s1", "s2"}

Resetters == {"s1"}

Leavers == {"s2"}

\* the user ids (uuids) the components generate
UserIds == {"u1", "u2", "u3"}

\* a missing range (null), a missing map entry (undefined)
Null == [index |-> -1, length |-> -1]

NoUser == [socketId |-> "", id |-> "", name |-> "", cursor |-> Null]

VARIABLES
  \* ---- server (part_000)
  documents,   \* documents Map: documentId -> [delta, users]
  docOrder,    \* the keys of the documents Map, in insertion order
  sockets,     \* io.sockets.sockets: the live connections
  rooms,       \* socket.io rooms: documentId -> connections that joined
  \* ---- transport: one ordered channel per connection and direction
  c2s,
  s2c,
  \* ---- client (part_003), one per connection
  mounted,           \* the documentId prop and the generated user (id, name)
  phase,             \* "idle", "connected" or "closed"
  content,           \* the text of the Quill editor
  selection,         \* quill.getSelection()
  userCursors,       \* userCursorsRef: user id -> range
  activeHighlights,  \* activeHighlightsRef: user id -> range
  usersRef,          \* usersRef: the last users-update, filtered
  selTimers,         \* pending setTimeout(.., 0) callbacks of the edit handler
  \* ---- bookkeeping of the run
  opCount,     \* local edits made so far
  selCount,    \* user selection changes made so far
  resetCount,  \* reset requests made so far
  closeCount,  \* connections closed so far
  composed,    \* per document: the operations the server composed, in order
  resetAt,     \* per document: how many of them preceded the last reset
  applied,     \* per connection: the remote operations it applied, in order
  joinPoint,   \* per connection: Len(composed) of the document when it joined
  highlighted, \* per connection: the ranges of the highlight-changes relayed for it
  dropped,     \* how many events the server's handlers returned early on
  \* ---- inputs and result of the transform functions
  tDelta,    \* the delta handed to the transform functions
  tIndex,    \* the position (range start) handed to them
  tLength,   \* the range length handed to transformHighlightRange
  tResult,   \* what the last call returned
  \* ---- inputs and result of Delta.compose
  cText,     \* the content the first delta applies to
  cThis,     \* the delta compose is called on
  cOther,    \* the delta handed to it
  cNext,     \* a third delta, composed after the two
  cResult,   \* what the call returned
  \* ---- one editor's debounced cursor re-renders (part_003)
  timeouts,              \* the browser's pending setTimeout callbacks
  cursorUpdateTimeouts,  \* cursorUpdateTimeouts ref: key -> timeout handle
  cursorsRef,            \* cursorsRef: key -> the range its element shows
  fired,                 \* the timeouts whose callback ran
  calls,                 \* calls of debouncedUpdateCursor and removeCursor so far
  lastCall               \* per key: the number of the last such call

tvars == <<tDelta, tIndex, tLength, tResult>>

composevars == <<cText, cThis, cOther, cNext, cResult>>

debouncevars ==
  <<timeouts, cursorUpdateTimeouts, cursorsRef, fired, calls, lastCall>>

\* the documentId prop of the editor on connection c
documentId(c) == mounted[c].documentId

\* the user object of the editor on connection c
UserOf(c) == [id |-> mounted[c].id, name |-> mounted[c].name]

servervars == <<documents, docOrder, sockets, rooms>>

clientvars ==
  <<phase, content, selection, userCursors, activeHighlights, usersRef, selTimers>>

countvars == <<opCount, selCount, resetCount, closeCount>>

historyvars == <<composed, resetAt, applied, joinPoint, highlighted, dropped>>

sysvars == <<servervars, c2s, s2c, mounted, clientvars, countvars, historyvars>>

vars == <<sysvars, tvars, composevars, debouncevars>>

(***************************************************************************)
(* transformCursorPosition: one iteration of the loop over delta.ops.      *)
(* st = [transformedIndex, currentIndex].  The JavaScript tests op.retain, *)
(* op.insert and op.delete for truthiness, so a zero count or an empty     *)
(* string falls through every branch.                                      *)
(***************************************************************************)
TransformStepInclusive(op, cursorIndex, st) ==
  IF op.t = "retain" /\ op.n # 0
  THEN [st EXCEPT !.currentIndex = st.currentIndex + op.n]
  ELSE IF op.t = "insert" /\ Len(op.s) # 0
  THEN [transformedIndex |->
            IF st.currentIndex <= cursorIndex
            THEN st.transformedIndex + Len(op.s)
            ELSE st.transformedIndex,
        currentIndex |-> st.currentIndex + Len(op.s)]
  ELSE IF op.t = "delete" /\ op.n # 0
  THEN LET deleteStart == st.currentIndex
           deleteEnd == st.currentIndex + op.n
       IN IF deleteEnd <= cursorIndex
          THEN [st EXCEPT !.transformedIndex = st.transformedIndex - op.n]
          ELSE IF deleteStart < cursorIndex
          THEN [st EXCEPT !.transformedIndex = deleteStart]
          ELSE st
  ELSE st

TransformStepDeleteAlwaysSubtracts(op, cursorIndex, st) ==
  IF op.t = "retain" /\ op.n # 0
  THEN [st EXCEPT !.currentIndex = st.currentIndex + op.n]
  ELSE IF op.t = "insert" /\ Len(op.s) # 0
  THEN [transformedIndex |->
            IF st.currentIndex < cursorIndex
            THEN st.transformedIndex + Len(op.s)
            ELSE st.transformedIndex,
        currentIndex |-> st.currentIndex + Len(op.s)]
  ELSE IF op.t = "delete" /\ op.n # 0
  THEN LET deleteStart == st.currentIndex
       IN IF deleteStart < cursorIndex
          THEN [st EXCEPT !.transformedIndex = st.transformedIndex - op.n]
          ELSE st
  ELSE st

TransformStepRetainShifts(op, cursorIndex, st) ==
  IF op.t = "retain" /\ op.n # 0
  THEN [transformedIndex |->
            IF st.currentIndex < cursorIndex
            THEN st.transformedIndex + op.n
            ELSE st.transformedIndex,
        currentIndex |-> st.currentIndex + op.n]
  ELSE IF op.t = "insert" /\ Len(op.s) # 0
  THEN [transformedIndex |->
            IF st.currentIndex < cursorIndex
            THEN st.transformedIndex + Len(op.s)
            ELSE st.transformedIndex,
        currentIndex |-> st.currentIndex + Len(op.s)]
  ELSE IF op.t = "delete" /\ op.n # 0
  THEN LET deleteStart == st.currentIndex
           deleteEnd == st.currentIndex + op.n
       IN IF deleteEnd <= cursorIndex
          THEN [st EXCEPT !.transformedIndex = st.transformedIndex - op.n]
          ELSE IF deleteStart < cursorIndex
          THEN [st EXCEPT !.transformedIndex = deleteStart]
          ELSE st
  ELSE st

TransformStep(op, cursorIndex, st) ==
  IF op.t = "retain" /\ op.n # 0
  THEN [st EXCEPT !.currentIndex = st.currentIndex + op.n]
  ELSE IF op.t = "insert" /\ Len(op.s) # 0
  THEN [transformedIndex |->
            IF st.currentIndex < cursorIndex
            THEN st.transformedIndex + Len(op.s)
            ELSE st.transformedIndex,
        currentIndex |-> st.currentIndex + Len(op.s)]
  ELSE IF op.t = "delete" /\ op.n # 0
  THEN LET deleteStart == st.currentIndex
           deleteEnd == st.currentIndex + op.n
       IN IF deleteEnd <= cursorIndex
          THEN [st EXCEPT !.transformedIndex = st.transformedIndex - op.n]
          ELSE IF deleteStart < cursorIndex
          THEN [st EXCEPT !.transformedIndex = deleteStart]
          ELSE st
  ELSE st

RECURSIVE TransformLoop(_, _, _, _)
TransformLoop(ops, i, cursorIndex, st) ==
  IF i > Len(ops) THEN st
  ELSE TransformLoop(ops, i + 1, cursorIndex, TransformStep(ops[i], cursorIndex, st))

transformCursorPosition(cursorIndex, delta) ==
  Max(0, TransformLoop(delta, 1, cursorIndex,
                       [transformedIndex |-> cursorIndex,
                        currentIndex |-> 0]).transformedIndex)

(***************************************************************************)
(* transformHighlightRange                                                 *)
(***************************************************************************)
transformHighlightRange(range, delta) ==
  LET startIndex == transformCursorPosition(range.index, delta)
      endIndex == transformCursorPosition(range.index + range.length, delta)
  IN [index |-> startIndex, length |-> Max(0, endIndex - startIndex)]

(***************************************************************************)
(* quill-delta, as the server uses it: new Delta(ops), compose, push, chop *)
(* (attributes are not modelled: every operation is plain text).           *)
(***************************************************************************)
OpLength(op) == IF op.t = "insert" THEN Len(op.s) ELSE op.n

\* a push that only appends
PushLast(ops, newOp) == Append(ops, newOp)

\* Delta.push: merges with the last operation, and puts an insert that
\* follows a delete before that delete
Push(ops, newOp) ==
  IF ops = <<>> THEN <<newOp>>
  ELSE LET k == Len(ops)
           lastOp == ops[k]
       IN IF newOp.t = "delete" /\ lastOp.t = "delete"
          THEN [ops EXCEPT ![k] = Delete(lastOp.n + newOp.n)]
          ELSE IF lastOp.t = "delete" /\ newOp.t = "insert"
          THEN IF k = 1 THEN <<newOp>> \o ops
               ELSE IF ops[k - 1].t = "insert"
               THEN [ops EXCEPT ![k - 1] = Insert(ops[k - 1].s \o newOp.s)]
               ELSE SubSeq(ops, 1, k - 1) \o <<newOp, lastOp>>
          ELSE IF newOp.t = "insert" /\ lastOp.t = "insert"
          THEN [ops EXCEPT ![k] = Insert(lastOp.s \o newOp.s)]
          ELSE IF newOp.t = "retain" /\ lastOp.t = "retain"
          THEN [ops EXCEPT ![k] = Retain(lastOp.n + newOp.n)]
          ELSE Append(ops, newOp)

\* OpIterator.next(length): the first length units of an operation ...
TakeOp(op, length) ==
  IF op.t = "insert" THEN Insert(SubSeq(op.s, 1, length))
  ELSE IF op.t = "retain" THEN Retain(length)
  ELSE Delete(length)

\* an iterator that drops the rest of an operation it took a part of
DropWhole(ops, length) == Tail(ops)

\* ... and the operations left after them
DropOp(ops, length) ==
  LET op == Head(ops)
  IN IF length >= OpLength(op) THEN Tail(ops)
     ELSE IF op.t = "insert"
     THEN <<Insert(SubSeq(op.s, length + 1, Len(op.s)))>> \o Tail(ops)
     ELSE IF op.t = "retain" THEN <<Retain(op.n - length)>> \o Tail(ops)
     ELSE <<Delete(op.n - length)>> \o Tail(ops)

\* Delta.chop: a trailing retain is dropped
Chop(ops) ==
  IF ops # <<>> /\ ops[Len(ops)].t = "retain"
  THEN SubSeq(ops, 1, Len(ops) - 1)
  ELSE ops

\* the loop of Delta.compose; a and b are what is left of this and other.
\* An exhausted iterator yields retain Infinity.
RECURSIVE ComposeLoop(_, _, _)
ComposeLoop(a, b, out) ==
  IF a = <<>> /\ b = <<>> THEN out
  ELSE IF b # <<>> /\ Head(b).t = "insert"
  THEN ComposeLoop(a, Tail(b), Push(out, Head(b)))
  ELSE IF a # <<>> /\ Head(a).t = "delete"
  THEN ComposeLoop(Tail(a), b, Push(out, Head(a)))
  ELSE LET length == IF a = <<>> THEN OpLength(Head(b))
                     ELSE IF b = <<>> THEN OpLength(Head(a))
                     ELSE Min(OpLength(Head(a)), OpLength(Head(b)))
           thisOp == IF a = <<>> THEN Retain(length) ELSE TakeOp(Head(a), length)
           otherOp == IF b = <<>> THEN Retain(length) ELSE TakeOp(Head(b), length)
           a2 == IF a = <<>> THEN a ELSE DropOp(a, length)
           b2 == IF b = <<>> THEN b ELSE DropOp(b, length)
       IN IF otherOp.t = "retain"
          THEN ComposeLoop(a2, b2, Push(out, thisOp))
          ELSE IF thisOp.t = "retain"
          THEN ComposeLoop(a2, b2, Push(out, Delete(length)))
          ELSE ComposeLoop(a2, b2, out)

Compose(this, other) == Chop(ComposeLoop(this, other, <<>>))

\* Delta.transformPosition(index, priority), which Quill uses to shift the
\* local selection over a change it applies
RECURSIVE DeltaTransformPosition(_, _, _, _, _)
DeltaTransformPosition(ops, i, index, offset, priority) ==
  IF i > Len(ops) \/ offset > index THEN index
  ELSE LET op == ops[i]
           length == OpLength(op)
       IN IF op.t = "delete"
          THEN DeltaTransformPosition(ops, i + 1,
                 index - Min(length, index - offset), offset, priority)
          ELSE IF op.t = "insert" /\ (offset < index \/ ~priority)
          THEN DeltaTransformPosition(ops, i + 1, index + length,
                                      offset + length, priority)
          ELSE DeltaTransformPosition(ops, i + 1, index, offset + length, priority)

(***************************************************************************)
(* Quill, as the client uses it: updateContents / setContents apply a      *)
(* delta to the editor's text (inserts first, then deletes, each clipped   *)
(* to the text there is), and shift the local selection.  The text is kept *)
(* without the newline Quill appends to every document.                    *)
(***************************************************************************)
RECURSIVE InsertPass(_, _, _, _)
InsertPass(text, ops, i, index) ==
  IF i > Len(ops) THEN text
  ELSE IF ops[i].t = "insert"
  THEN LET at == Min(index, Len(text))
       IN InsertPass(SubSeq(text, 1, at) \o ops[i].s \o SubSeq(text, at + 1, Len(text)),
                     ops, i + 1, index + Len(ops[i].s))
  ELSE InsertPass(text, ops, i + 1, index + ops[i].n)

RECURSIVE DeletePass(_, _, _, _)
DeletePass(text, ops, i, index) ==
  IF i > Len(ops) THEN text
  ELSE IF ops[i].t = "delete"
  THEN LET from == Min(index, Len(text))
           to == Min(index + ops[i].n, Len(text))
       IN DeletePass(SubSeq(text, 1, from) \o SubSeq(text, to + 1, Len(text)),
                     ops, i + 1, index)
  ELSE DeletePass(text, ops, i + 1, index + OpLength(ops[i]))

updateContents(text, delta) ==
  DeletePass(InsertPass(text, delta, 1, 0), delta, 1, 0)

\* setContents replaces the whole text by what the delta builds
setContents(delta) == updateContents(<<>>, delta)

\* the selection after Quill applied a remote ('api') change
shiftRange(range, delta) ==
  IF range = Null THEN Null
  ELSE LET start == DeltaTransformPosition(delta, 1, range.index, 0, TRUE)
           end == DeltaTransformPosition(delta, 1, range.index + range.length, 0, TRUE)
       IN [index |-> start, length |-> end - start]

\* the text as the delta a snapshot of it is: getContents() without the
\* trailing newline
Snapshot(text) == IF text = <<>> THEN <<>> ELSE <<Insert(text)>>

(***************************************************************************)
(* Messages.  Client to server: the event name, the documentId of the      *)
(* payload, its delta or range.  Server to client: the event name (whose   *)
(* suffix is the document id, kept in doc) and the payload fields.  tag    *)
(* numbers the local edit an operation stems from (bookkeeping only).      *)
(***************************************************************************)
ClientMsg(ev, d, delta, range, tag) ==
  [ev |-> ev, documentId |-> d, delta |-> delta, range |-> range, tag |-> tag]

ServerMsg(ev, d, userId, user, users, delta, range, tag) ==
  [ev |-> ev, doc |-> d, userId |-> userId, user |-> user, users |-> users,
   delta |-> delta, range |-> range, tag |-> tag]

\* socket.emit on the client
EmitFirst(queues, c, msgs) == [queues EXCEPT ![c] = msgs \o @]

Emit(queues, c, msgs) == [queues EXCEPT ![c] = @ \o msgs]

\* a text-change handler that emits whatever the source of the change
BroadcastAnySource(queues, c, delta, source, tag) ==
  Emit(queues, c, <<ClientMsg("text-change", documentId(c), delta, Null, tag)>>)

\* quill.on('text-change'): only a change of source 'user' is emitted; Quill
\* reports updateContents(delta, 'api') with source 'api'
BroadcastDelta(queues, c, delta, source, tag) ==
  IF source = "user"
  THEN Emit(queues, c, <<ClientMsg("text-change", documentId(c), delta, Null, tag)>>)
  ELSE queues

\* emit to a set of connections
EmitToFront(queues, targets, msgs) ==
  [x \in Conns |-> IF x \in targets THEN msgs \o queues[x] ELSE queues[x]]

EmitTo(queues, targets, msgs) ==
  [x \in Conns |-> IF x \in targets THEN queues[x] \o msgs ELSE queues[x]]

(***************************************************************************)
(* Server: the documents Map and the rooms                                 *)
(***************************************************************************)
NewDocument == [delta |-> <<>>, users |-> <<>>]

HasDocument(d) == \E i \in 1..Len(docOrder) : docOrder[i] = d

\* getOrCreateDocument: the key order after the call
GetOrCreateOrder(d) == IF HasDocument(d) THEN docOrder ELSE Append(docOrder, d)

HasUser(users, sid) == \E i \in 1..Len(users) : users[i].socketId = sid

GetUser(users, sid) ==
  users[CHOOSE i \in 1..Len(users) : users[i].socketId = sid]

\* Map.set: an existing key keeps its place
SetUser(users, sid, u) ==
  IF HasUser(users, sid)
  THEN [i \in 1..Len(users) |-> IF users[i].socketId = sid THEN u ELSE users[i]]
  ELSE Append(users, u)

KeepUser(users, sid) == users

DeleteUser(users, sid) == SelectSeq(users, LAMBDA u : u.socketId # sid)

\* io.to(documentId): every connection in the room
ToAllSockets(rm, d) == sockets

ToNobody(rm, d) == {}

ToRoom(rm, d) == rm[d]

\* socket.to(documentId): every connection in the room but the sender
ToRoomWithSender(rm, sock, d) == rm[d]

ToOthers(rm, sock, d) == rm[d] \ {sock}

\* document.delta.compose(new Delta(delta.ops))
ComposeOntoEmpty(docDelta, incoming) == Compose(<<>>, incoming)

ComposeOnto(docDelta, incoming) == Compose(docDelta, incoming)

\* the users of the run may act once more
MayAct == opCount + selCount + resetCount + closeCount < MaxActions

\* a payload that carries no documentId, a payload that carries no delta
NoDocumentId == ""

NoDelta == <<[t |-> "none", n |-> 0, s |-> <<>>]>>

\* a dispatch that hands the head event to any handler
InboundAny(c, ev) ==
  /\ c2s[c] # <<>>
  /\ Head(c2s[c]).documentId # NoDocumentId

\* the head of a connection's inbound queue is an event of this name that
\* passes the handler's `if (!documentId) return`
Inbound(c, ev) ==
  /\ c2s[c] # <<>>
  /\ Head(c2s[c]).ev = ev
  /\ Head(c2s[c]).documentId # NoDocumentId

\* the keys of the documents Map once a handler has returned early:
\* getOrCreateDocument was not reached
OrderWithSession(order, d) == Append(order, d)

OrderAfterReturn(order, d) == order

\* the early return of the five handlers on a payload without documentId
ServerDrop(c) ==
  /\ c2s[c] # <<>>
  /\ Head(c2s[c]).documentId = NoDocumentId
  /\ docOrder' = OrderAfterReturn(docOrder, Head(c2s[c]).documentId)
  /\ c2s' = [c2s EXCEPT ![c] = Tail(@)]
  /\ dropped' = dropped + 1
  /\ UNCHANGED <<documents, sockets, rooms, s2c, clientvars, countvars,
                 composed, resetAt, applied, joinPoint, highlighted, tvars, composevars, debouncevars,
                 mounted>>

\* the users left once those of that name under another socket id are deleted
EvictNobody(users, name, c) == users

EvictSameName(users, name, c) ==
  SelectSeq(users, LAMBDA u : ~(u.name = name /\ u.socketId # c))

\* the users, other than c's, that have a cursor
AllOthers(users, c) == SelectSeq(users, LAMBDA u : u.socketId # c)

OthersWithCursor(users, c) ==
  SelectSeq(users, LAMBDA u : u.socketId # c /\ u.cursor # Null)

\* socket.on('user-join')
ServerUserJoin(c) ==
  /\ Inbound(c, "user-join")
  /\ LET msg == Head(c2s[c])
         d == msg.documentId
         info == UserOf(c)
         rooms1 == [rooms EXCEPT ![d] = @ \cup {c}]
         doc == documents[d]
         load == ServerMsg("load-document", d, "", NoUser, <<>>, doc.delta, Null, 0)
         users1 == EvictSameName(doc.users, info.name, c)
         users2 == SetUser(users1, c,
                           [socketId |-> c, id |-> info.id, name |-> info.name,
                            cursor |-> Null])
         withCursor == OthersWithCursor(users2, c)
         cursorMsgs == [i \in 1..Len(withCursor) |->
                          ServerMsg("cursor-change", d, withCursor[i].socketId,
                                    withCursor[i], <<>>, <<>>,
                                    withCursor[i].cursor, 0)]
         update == ServerMsg("users-update", d, "", NoUser, users2, <<>>, Null, 0)
     IN /\ rooms' = rooms1
        /\ docOrder' = GetOrCreateOrder(d)
        /\ documents' = [documents EXCEPT ![d] = [delta |-> doc.delta, users |-> users2]]
        /\ s2c' = EmitTo(Emit(s2c, c, <<load>> \o cursorMsgs),
                         ToRoom(rooms1, d), <<update>>)
        /\ joinPoint' = [joinPoint EXCEPT ![c] = Len(composed[d])]
  /\ c2s' = [c2s EXCEPT ![c] = Tail(@)]
  /\ UNCHANGED <<sockets, clientvars, countvars, composed, resetAt, applied,
                 highlighted, dropped, tvars, composevars, debouncevars, mounted>>

\* socket.on('text-change')
ServerTextChange(c) ==
  /\ Inbound(c, "text-change")
  /\ LET msg == Head(c2s[c])
         d == msg.documentId
         doc == documents[d]
     IN /\ docOrder' = GetOrCreateOrder(d)
        /\ IF msg.delta = NoDelta
           THEN \* delta.ops throws inside the try block: the catch logs
                UNCHANGED <<documents, s2c, composed>>
           ELSE /\ documents' =
                     [documents EXCEPT
                        ![d] = [delta |-> ComposeOnto(doc.delta, msg.delta),
                                users |-> doc.users]]
                /\ s2c' = EmitTo(s2c, ToOthers(rooms, c, d),
                                 <<ServerMsg("text-change", d, c, NoUser, <<>>,
                                             msg.delta, Null, msg.tag)>>)
                /\ composed' = [composed EXCEPT
                                  ![d] = Append(@, [tag |-> msg.tag, from |-> c,
                                                    delta |-> msg.delta])]
  /\ c2s' = [c2s EXCEPT ![c] = Tail(@)]
  /\ UNCHANGED <<sockets, rooms, clientvars, countvars, resetAt, applied,
                 joinPoint, highlighted, dropped, tvars, composevars, debouncevars, mounted>>

\* socket.on('reset-document')
ServerResetDocument(c) ==
  /\ Inbound(c, "reset-document")
  /\ LET d == Head(c2s[c]).documentId
     IN /\ docOrder' = GetOrCreateOrder(d)
        /\ documents' = [documents EXCEPT ![d] = [delta |-> <<>>, users |-> @.users]]
        /\ s2c' = EmitTo(s2c, ToRoom(rooms, d),
                         <<ServerMsg("load-document", d, "", NoUser, <<>>, <<>>,
                                     Null, 0)>>)
        /\ resetAt' = [resetAt EXCEPT ![d] = Len(composed[d])]
  /\ c2s' = [c2s EXCEPT ![c] = Tail(@)]
  /\ UNCHANGED <<sockets, rooms, clientvars, countvars, composed, applied,
                 joinPoint, highlighted, dropped, tvars, composevars, debouncevars, mounted>>

\* socket.on('selection-change')
ServerSelectionChange(c) ==
  /\ Inbound(c, "selection-change")
  /\ LET msg == Head(c2s[c])
         d == msg.documentId
         doc == documents[d]
     IN /\ docOrder' = GetOrCreateOrder(d)
        /\ IF HasUser(doc.users, c)
           THEN LET u == [GetUser(doc.users, c) EXCEPT !.cursor = msg.range]
                IN /\ documents' = [documents EXCEPT
                                      ![d] = [delta |-> doc.delta,
                                              users |-> SetUser(doc.users, c, u)]]
                   /\ s2c' = EmitTo(s2c, ToOthers(rooms, c, d),
                                    <<ServerMsg("cursor-change", d, c, u, <<>>,
                                                <<>>, msg.range, msg.tag)>>)
           ELSE UNCHANGED <<documents, s2c>>
  /\ c2s' = [c2s EXCEPT ![c] = Tail(@)]
  /\ UNCHANGED <<sockets, rooms, clientvars, countvars, historyvars, tvars, composevars, debouncevars, mounted>>

\* socket.on('highlight-change')
ServerHighlightChange(c) ==
  /\ Inbound(c, "highlight-change")
  /\ LET msg == Head(c2s[c])
         d == msg.documentId
         doc == documents[d]
     IN /\ docOrder' = GetOrCreateOrder(d)
        /\ IF HasUser(doc.users, c)
           THEN /\ s2c' = EmitTo(s2c, ToOthers(rooms, c, d),
                                 <<ServerMsg("highlight-change", d, c,
                                             GetUser(doc.users, c), <<>>, <<>>,
                                             msg.range, 0)>>)
                /\ highlighted' = [highlighted EXCEPT ![c] = @ \cup {msg.range}]
           ELSE UNCHANGED <<s2c, highlighted>>
  /\ c2s' = [c2s EXCEPT ![c] = Tail(@)]
  /\ UNCHANGED <<documents, sockets, rooms, clientvars, countvars, composed,
                 resetAt, applied, joinPoint, dropped, tvars, composevars, debouncevars, mounted>>

\* what the disconnect handler emits for the documents from index i on, in
\* the order of the Map; rm are the rooms once the socket has left them
RECURSIVE DisconnectEmits(_, _, _, _)
DisconnectEmits(queues, c, rm, i) ==
  IF i > Len(docOrder) THEN queues
  ELSE LET d == docOrder[i]
           users == documents[d].users
       IN IF HasUser(users, c)
          THEN DisconnectEmits(
                 EmitTo(EmitTo(queues, ToRoom(rm, d),
                               <<ServerMsg("users-update", d, "", NoUser,
                                           DeleteUser(users, c), <<>>, Null, 0)>>),
                        ToOthers(rm, c, d),
                        <<ServerMsg("user-disconnect", d, c, NoUser, <<>>, <<>>,
                                    Null, 0)>>),
                 c, rm, i + 1)
          ELSE DisconnectEmits(queues, c, rm, i + 1)

\* the connection closes: the socket leaves io.sockets.sockets and its rooms,
\* what was in flight on it is lost, and socket.on('disconnect') runs
Disconnect(c) ==
  /\ phase[c] = "connected"
  /\ MayAct /\ closeCount < MaxCloses
  /\ c \in Leavers
  /\ closeCount' = closeCount + 1
  /\ phase' = [phase EXCEPT ![c] = "closed"]
  /\ sockets' = sockets \ {c}
  /\ LET rooms1 == [d \in Docs |-> rooms[d] \ {c}]
     IN /\ rooms' = rooms1
        /\ s2c' = [DisconnectEmits(s2c, c, rooms1, 1) EXCEPT ![c] = <<>>]
  /\ documents' = [d \in Docs |->
                     [delta |-> documents[d].delta,
                      users |-> DeleteUser(documents[d].users, c)]]
  /\ c2s' = [c2s EXCEPT ![c] = <<>>]
  /\ UNCHANGED <<docOrder, content, selection, userCursors, activeHighlights,
                 usersRef, selTimers, opCount, selCount, resetCount,
                 historyvars, tvars, composevars, debouncevars, mounted>>

DeadUsers(users, connectedSockets) ==
  SelectSeq(users, LAMBDA u : u.socketId \notin connectedSockets)

\* the users left once every key that is not a connected socket is deleted
LiveUsers(users, connectedSockets) ==
  SelectSeq(users, LAMBDA u : u.socketId \in connectedSockets)

\* setInterval: users whose socket is no longer connected are removed
Sweep ==
  /\ documents' = [d \in Docs |->
                     [delta |-> documents[d].delta,
                      users |-> LiveUsers(documents[d].users, sockets)]]
  /\ UNCHANGED <<docOrder, sockets, rooms, c2s, s2c, clientvars, countvars,
                 historyvars, tvars, composevars, debouncevars, mounted>>

(***************************************************************************)
(* Client: the CollaborativeEditor mounted on connection c                 *)
(***************************************************************************)
\* socket.on('connect'): the socket connects and the client announces itself
Connect(c) ==
  /\ phase[c] = "idle"
  /\ phase' = [phase EXCEPT ![c] = "connected"]
  /\ sockets' = sockets \cup {c}
  /\ c2s' = Emit(c2s, c, <<ClientMsg("user-join", documentId(c), <<>>, Null, 0)>>)
  /\ UNCHANGED <<documents, docOrder, rooms, s2c, content, selection,
                 userCursors, activeHighlights, usersRef, selTimers, countvars,
                 historyvars, tvars, composevars, debouncevars, mounted>>

\* the deltas Quill reports for one user edit of the text: a character typed
\* at position i, or the character at position i deleted
UserDeltas(c, text) ==
  {IF i = 0 THEN <<Insert(<<CharOf(c)>>)>> ELSE <<Retain(i), Insert(<<CharOf(c)>>)>> :
      i \in 0..Len(text)}
    \cup {IF i = 0 THEN <<Delete(1)>> ELSE <<Retain(i), Delete(1)>> :
            i \in 0..(Len(text) - 1)}

\* where Quill leaves the caret after that edit
CaretAfter(delta) ==
  LET op == delta[Len(delta)]
      at == IF Len(delta) = 1 THEN 0 ELSE delta[1].n
  IN [index |-> at + Len(op.s), length |-> 0]

\* the cached cursors after a delta; skip is the user id left untouched
TransformCursors(cursors, delta, skip) ==
  [u \in UserIds |->
     IF cursors[u] = Null \/ u = skip THEN cursors[u]
     ELSE [index |-> transformCursorPosition(cursors[u].index, delta),
           length |-> cursors[u].length]]

\* a transform of the highlights that keeps the ones of length 0
TransformHighlightsKeepingEmpty(highlights, delta, skip) ==
  [u \in UserIds |->
     IF highlights[u] = Null \/ u = skip THEN highlights[u]
     ELSE transformHighlightRange(highlights[u], delta)]

\* the active highlights after a delta; a highlight of length 0 is dropped
TransformHighlights(highlights, delta, skip) ==
  [u \in UserIds |->
     IF highlights[u] = Null \/ u = skip THEN highlights[u]
     ELSE LET r == transformHighlightRange(highlights[u], delta)
          IN IF r.length > 0 THEN r ELSE Null]

\* quill.on('text-change') with source 'user'
UserEdit(c, delta) ==
  /\ phase[c] = "connected"
  /\ MayAct /\ opCount < MaxEdits
  /\ c \in Editors
  /\ delta \in UserDeltas(c, content[c])
  /\ opCount' = opCount + 1
  /\ content' = [content EXCEPT ![c] = updateContents(@, delta)]
  /\ selection' = [selection EXCEPT ![c] = CaretAfter(delta)]
  /\ c2s' = BroadcastDelta(c2s, c, delta, "user", opCount + 1)
  /\ userCursors' = [userCursors EXCEPT ![c] = TransformCursors(@, delta, "")]
  /\ activeHighlights' =
       [activeHighlights EXCEPT ![c] = TransformHighlights(@, delta, "")]
  /\ selTimers' = [selTimers EXCEPT ![c] = @ + 1]
  /\ UNCHANGED <<servervars, s2c, phase, usersRef, selCount, resetCount,
                 closeCount, historyvars, tvars, composevars, debouncevars, mounted>>

\* the delta of a toolbar format applied to a range: it retains the text (the
\* attributes it sets are not part of the model's operations)
FormatDelta(range) == <<Retain(range.index + range.length)>>

\* quill.on('text-change') with source 'user' for a toolbar format of the
\* selected text: the text and the selection stay as they are
UserFormat(c) ==
  /\ phase[c] = "connected"
  /\ MayAct /\ opCount < MaxEdits
  /\ c \in Selectors
  /\ selection[c] # Null /\ selection[c].length > 0
  /\ LET delta == FormatDelta(selection[c])
     IN /\ c2s' = Emit(c2s, c, <<ClientMsg("text-change", documentId(c), delta,
                                           Null, opCount + 1)>>)
        /\ userCursors' = [userCursors EXCEPT ![c] = TransformCursors(@, delta, "")]
        /\ activeHighlights' =
             [activeHighlights EXCEPT ![c] = TransformHighlights(@, delta, "")]
  /\ opCount' = opCount + 1
  /\ selTimers' = [selTimers EXCEPT ![c] = @ + 1]
  /\ UNCHANGED <<servervars, s2c, phase, content, selection, usersRef, selCount,
                 resetCount, closeCount, historyvars, tvars, composevars, debouncevars, mounted>>

\* the number of the latest local edit of c (bookkeeping: the edit whose
\* selection a re-emitted selection-change carries)
LastEditOf(c) ==
  LET sent == {c2s[c][i].tag : i \in 1..Len(c2s[c])}
      h == composed[documentId(c)]
      done == {h[i].tag : i \in {j \in 1..Len(h) : h[j].from = c}}
  IN CHOOSE t \in sent \cup done \cup {0} : \A u \in sent \cup done : u <= t

\* the callback of the edit handler's setTimeout(.., 0)
SelectionTimer(c) ==
  /\ phase[c] = "connected"
  /\ selTimers[c] > 0
  /\ selTimers' = [selTimers EXCEPT ![c] = @ - 1]
  /\ c2s' = IF selection[c] # Null
            THEN Emit(c2s, c, <<ClientMsg("selection-change", documentId(c),
                                          <<>>, selection[c], LastEditOf(c))>>)
            ELSE c2s
  /\ UNCHANGED <<servervars, s2c, phase, content, selection, userCursors,
                 activeHighlights, usersRef, countvars, historyvars, tvars, composevars, debouncevars, mounted>>

\* the ranges a user can select in a text, and null (the editor loses focus)
Ranges(text) ==
  {[index |-> i, length |-> n] : i \in 0..Len(text), n \in 0..Len(text)}

\* quill.on('selection-change') with source 'user'
UserSelect(c, range) ==
  /\ phase[c] = "connected"
  /\ MayAct /\ selCount < MaxSelects
  /\ c \in Selectors
  /\ \/ range = Null
     \/ range \in Ranges(content[c]) /\ range.index + range.length <= Len(content[c])
  /\ range # selection[c]
  /\ selCount' = selCount + 1
  /\ selection' = [selection EXCEPT ![c] = range]
  /\ c2s' = Emit(c2s, c,
                 <<ClientMsg("selection-change", documentId(c), <<>>, range, 0)>>
                   \o IF range # Null /\ range.length > 0
                      THEN <<ClientMsg("highlight-change", documentId(c), <<>>,
                                       range, 0)>>
                      ELSE <<>>)
  /\ UNCHANGED <<servervars, s2c, phase, content, userCursors, activeHighlights,
                 usersRef, selTimers, opCount, resetCount, closeCount,
                 historyvars, tvars, composevars, debouncevars, mounted>>

\* a connection asks for a reset of a document (no editor does; the handler
\* exists for testing)
RequestReset(c, d) ==
  /\ phase[c] = "connected"
  /\ MayAct /\ resetCount < MaxResets
  /\ c \in Resetters
  /\ resetCount' = resetCount + 1
  /\ c2s' = Emit(c2s, c, <<ClientMsg("reset-document", d, <<>>, Null, 0)>>)
  /\ UNCHANGED <<servervars, s2c, clientvars, opCount, selCount, closeCount,
                 historyvars, tvars, composevars, debouncevars, mounted>>

\* the head of the connection's outbound queue is this event of its document
Outbound(c, ev) ==
  /\ phase[c] = "connected"
  /\ s2c[c] # <<>>
  /\ Head(s2c[c]).ev = ev
  /\ Head(s2c[c]).doc = documentId(c)

Consumed(c) == s2c' = [s2c EXCEPT ![c] = Tail(@)]

\* socket.on(`load-document-${documentId}`)
RecvLoadDocument(c) ==
  /\ Outbound(c, "load-document")
  /\ LET ops == Head(s2c[c]).delta
     IN content' = IF Len(ops) > 0
                   THEN [content EXCEPT ![c] = setContents(ops)]
                   ELSE content
  /\ Consumed(c)
  /\ UNCHANGED <<servervars, c2s, phase, selection, userCursors,
                 activeHighlights, usersRef, selTimers, countvars, historyvars,
                 tvars, composevars, debouncevars, mounted>>

\* usersRef.current.find(u => u.socketId === socketId)?.id
UserIdOfSocket(users, sid) ==
  IF HasUser(users, sid) THEN GetUser(users, sid).id ELSE ""

\* socket.on(`text-change-${documentId}`)
RecvTextChange(c) ==
  /\ Outbound(c, "text-change")
  /\ LET msg == Head(s2c[c])
         actualChangeUserId == UserIdOfSocket(usersRef[c], msg.userId)
     IN /\ userCursors' = [userCursors EXCEPT
                             ![c] = TransformCursors(@, msg.delta, actualChangeUserId)]
        /\ activeHighlights' =
             [activeHighlights EXCEPT
                ![c] = TransformHighlights(@, msg.delta, actualChangeUserId)]
        /\ content' = [content EXCEPT ![c] = updateContents(@, msg.delta)]
        /\ c2s' = BroadcastDelta(c2s, c, msg.delta, "api", msg.tag)
        /\ selection' = [selection EXCEPT ![c] = shiftRange(@, msg.delta)]
        /\ applied' = [applied EXCEPT ![c] = Append(@, msg.tag)]
  /\ Consumed(c)
  /\ UNCHANGED <<servervars, phase, usersRef, selTimers, countvars,
                 composed, resetAt, joinPoint, highlighted, dropped, tvars, composevars, debouncevars, mounted>>

\* updatedUsers unfiltered
WithSelf(updatedUsers, id) == updatedUsers

\* updatedUsers.filter(u => u.id !== user.id)
WithoutSelf(updatedUsers, id) ==
  SelectSeq(updatedUsers, LAMBDA u : u.id # id)

\* socket.on(`users-update-${documentId}`)
RecvUsersUpdate(c) ==
  /\ Outbound(c, "users-update")
  /\ usersRef' = [usersRef EXCEPT
                    ![c] = WithoutSelf(Head(s2c[c]).users, UserOf(c).id)]
  /\ Consumed(c)
  /\ UNCHANGED <<servervars, c2s, phase, content, selection, userCursors,
                 activeHighlights, selTimers, countvars, historyvars, tvars, composevars, debouncevars, mounted>>

HighlightAlways(range) == range

\* updateHighlight: the entry of activeHighlightsRef once it has run on a range
HighlightOf(range) ==
  IF range # Null /\ range.length > 0 THEN range ELSE Null

\* socket.on(`cursor-change-${documentId}`)
RecvCursorChange(c) ==
  /\ Outbound(c, "cursor-change")
  /\ LET msg == Head(s2c[c])
         actualUserId == msg.user.id
     IN /\ userCursors' = [userCursors EXCEPT ![c][actualUserId] = msg.range]
        /\ activeHighlights' =
             [activeHighlights EXCEPT
                ![c][actualUserId] = HighlightOf(msg.range)]
  /\ Consumed(c)
  /\ UNCHANGED <<servervars, c2s, phase, content, selection, usersRef,
                 selTimers, countvars, historyvars, tvars, composevars, debouncevars, mounted>>

\* socket.on(`user-disconnect-${documentId}`)
RecvUserDisconnect(c) ==
  /\ Outbound(c, "user-disconnect")
  /\ LET actualUserId == UserIdOfSocket(usersRef[c], Head(s2c[c]).userId)
     IN IF actualUserId # ""
        THEN /\ userCursors' = [userCursors EXCEPT ![c][actualUserId] = Null]
             /\ activeHighlights' =
                  [activeHighlights EXCEPT ![c][actualUserId] = Null]
        ELSE UNCHANGED <<userCursors, activeHighlights>>
  /\ Consumed(c)
  /\ UNCHANGED <<servervars, c2s, phase, content, selection, usersRef,
                 selTimers, countvars, historyvars, tvars, composevars, debouncevars, mounted>>

\* socket.on(`highlight-change-${documentId}`)
RecvHighlightChange(c) ==
  /\ Outbound(c, "highlight-change")
  /\ LET msg == Head(s2c[c])
     IN activeHighlights' =
          IF msg.range # Null /\ msg.range.length > 0
          THEN [activeHighlights EXCEPT ![c][msg.user.id] = msg.range]
          ELSE activeHighlights
  /\ Consumed(c)
  /\ UNCHANGED <<servervars, c2s, phase, content, selection, userCursors,
                 usersRef, selTimers, countvars, historyvars, tvars, composevars, debouncevars, mounted>>

(***************************************************************************)
(* The system                                                              *)
(***************************************************************************)
\* one editor on d1 per connection s1 and s2, one on d2 for s3, each with its
\* own user name
TwoDocuments ==
  [c \in Conns |->
     IF c = "s1" THEN [documentId |-> "d1", id |-> "u1", name |-> "User_1"]
     ELSE IF c = "s2" THEN [documentId |-> "d1", id |-> "u2", name |-> "User_2"]
     ELSE [documentId |-> "d2", id |-> "u3", name |-> "User_3"]]

\* three editors on d1; the one on s3 generated the user name of the one on s1
\* (the name is made of a timestamp suffix and a random number below 100)
OneDocument ==
  [c \in Conns |->
     IF c = "s1" THEN [documentId |-> "d1", id |-> "u1", name |-> "User_1"]
     ELSE IF c = "s2" THEN [documentId |-> "d1", id |-> "u2", name |-> "User_2"]
     ELSE [documentId |-> "d1", id |-> "u3", name |-> "User_1"]]

\* no message sent or in flight, every editor and every cache empty
NothingSent ==
  /\ c2s = [c \in Conns |-> <<>>]
  /\ s2c = [c \in Conns |-> <<>>]
  /\ content = [c \in Conns |-> <<>>]
  /\ selection = [c \in Conns |-> Null]
  /\ userCursors = [c \in Conns |-> [u \in UserIds |-> Null]]
  /\ activeHighlights = [c \in Conns |-> [u \in UserIds |-> Null]]
  /\ usersRef = [c \in Conns |-> <<>>]
  /\ selTimers = [c \in Conns |-> 0]
  /\ opCount = 0
  /\ selCount = 0
  /\ resetCount = 0
  /\ closeCount = 0
  /\ composed = [d \in Docs |-> <<>>]
  /\ resetAt = [d \in Docs |-> 0]
  /\ applied = [c \in Conns |-> <<>>]
  /\ joinPoint = [c \in Conns |-> 0]
  /\ highlighted = [c \in Conns |-> {}]
  /\ dropped = 0

\* the state after construction, whatever editors are mounted
Constructed ==
  /\ documents = [d \in Docs |-> NewDocument]
  /\ docOrder = <<>>
  /\ sockets = {}
  /\ rooms = [d \in Docs |-> {}]
  /\ phase = [c \in Conns |-> "idle"]
  /\ NothingSent

ServerStep(c) ==
  \/ ServerUserJoin(c)
  \/ ServerTextChange(c)
  \/ ServerResetDocument(c)
  \/ ServerSelectionChange(c)
  \/ ServerHighlightChange(c)

ClientStep(c) ==
  \/ RecvLoadDocument(c)
  \/ RecvTextChange(c)
  \/ RecvUsersUpdate(c)
  \/ RecvCursorChange(c)
  \/ RecvUserDisconnect(c)
  \/ RecvHighlightChange(c)
  \/ SelectionTimer(c)

UserStep(c) ==
  \/ Connect(c)
  \/ \E delta \in UserDeltas(c, content[c]) : UserEdit(c, delta)
  \/ \E range \in Ranges(content[c]) \cup {Null} : UserSelect(c, range)
  \/ \E d \in Docs : RequestReset(c, d)
  \/ Disconnect(c)

Next ==
  \/ \E c \in Conns : ServerStep(c)
  \/ \E c \in Conns : ClientStep(c)
  \/ \E c \in Conns : UserStep(c)
  \/ Sweep

(***************************************************************************)
(* Inputs of the transform functions: operation sequences in which no two  *)
(* adjacent operations have the same kind.                                 *)
(***************************************************************************)
RECURSIVE Text(_)
Text(k) == IF k = 0 THEN <<>> ELSE Append(Text(k - 1), "x")

OpSet ==
  {Retain(k) : k \in 0..MaxRetain}
    \cup {Insert(Text(k)) : k \in 0..MaxCount}
    \cup {Delete(k) : k \in 0..MaxCount}

RECURSIVE DeltasOfLen(_)
DeltasOfLen(k) ==
  IF k = 0 THEN {<<>>}
  ELSE {Append(d, o) : <<d, o>> \in
          {x \in DeltasOfLen(k - 1) \X OpSet :
              k = 1 \/ x[1][k - 1].t # x[2].t}}

Deltas == UNION {DeltasOfLen(k) : k \in 0..MaxOps}

NoResult == [kind |-> "none", index |-> 0, length |-> 0]

TIdle ==
  /\ tDelta = <<>>
  /\ tIndex = 0
  /\ tLength = 0
  /\ tResult = NoResult

\* no compose call has been made
NoComposed == [kind |-> "none", delta |-> <<>>]

ComposeIdle ==
  /\ cText = <<>>
  /\ cThis = <<>>
  /\ cOther = <<>>
  /\ cNext = <<>>
  /\ cResult = NoComposed

\* what Map.get gives for a key with no timeout handle
NoTimeout == 0

\* a freshly mounted editor: no timeout set, no cursor element
DebounceIdle ==
  /\ timeouts = {}
  /\ cursorUpdateTimeouts = [k \in Conns |-> NoTimeout]
  /\ cursorsRef = [k \in Conns |-> Null]
  /\ fired = {}
  /\ calls = 0
  /\ lastCall = [k \in Conns |-> 0]

Idle == TIdle /\ ComposeIdle /\ DebounceIdle

TInputs ==
  /\ tDelta \in Deltas
  /\ tIndex \in 0..MaxPos
  /\ tLength \in 0..MaxRangeLen
  /\ tResult = NoResult

\* a caller evaluates transformCursorPosition(tIndex, tDelta)
CallTransformPosition ==
  /\ tResult.kind = "none"
  /\ tResult' = [kind |-> "position",
                 index |-> transformCursorPosition(tIndex, tDelta),
                 length |-> 0]
  /\ UNCHANGED <<tDelta, tIndex, tLength, sysvars, composevars, debouncevars>>

\* a caller evaluates transformHighlightRange({tIndex, tLength}, tDelta)
CallTransformRange ==
  /\ tResult.kind = "none"
  /\ LET r == transformHighlightRange([index |-> tIndex, length |-> tLength], tDelta)
     IN tResult' = [kind |-> "range", index |-> r.index, length |-> r.length]
  /\ UNCHANGED <<tDelta, tIndex, tLength, sysvars, composevars, debouncevars>>

SysInit == Constructed /\ mounted = TwoDocuments

Init == SysInit /\ Idle

Spec == Init /\ [][Next]_vars

InitT == SysInit /\ TInputs /\ ComposeIdle /\ DebounceIdle

NextT == CallTransformPosition \/ CallTransformRange

SpecT == InitT /\ [][NextT]_vars

(***************************************************************************)
(* Delta.compose on its own: a content, a delta that applies to it and a   *)
(* delta that applies to the result are drawn, and compose is called on    *)
(* the two.                                                                *)
(***************************************************************************)
\* the length of the content an operation sequence starts from, and the length
\* of the content of a document state
RECURSIVE BaseLength(_)
BaseLength(delta) ==
  IF delta = <<>> THEN 0
  ELSE (IF Head(delta).t = "insert" THEN 0 ELSE Head(delta).n)
         + BaseLength(Tail(delta))

RECURSIVE ContentLength(_)
ContentLength(delta) ==
  IF delta = <<>> THEN 0
  ELSE (IF Head(delta).t = "insert" THEN Len(Head(delta).s) ELSE 0)
         + ContentLength(Tail(delta))

\* the largest count of a retain or delete, and the longest insert, drawn
MaxUnits == 2

ComposeText == <<"a", "b", "c">>

RECURSIVE Repeat(_, _)
Repeat(ch, k) == IF k = 0 THEN <<>> ELSE Append(Repeat(ch, k - 1), ch)

\* the operations of a drawn delta; ch is the character its inserts type
ComposeOps(ch) ==
  {Retain(k) : k \in 1..MaxUnits}
    \cup {Insert(Repeat(ch, k)) : k \in 1..MaxUnits}
    \cup {Delete(k) : k \in 1..MaxUnits}

\* well-formed deltas: positive counts, no two adjacent operations of a kind
RECURSIVE ComposeDeltasOfLen(_, _)
ComposeDeltasOfLen(k, ch) ==
  IF k = 0 THEN {<<>>}
  ELSE {Append(x[1], x[2]) :
          x \in {y \in ComposeDeltasOfLen(k - 1, ch) \X ComposeOps(ch) :
                   k = 1 \/ y[1][k - 1].t # y[2].t}}

ComposeDeltas(ch) == UNION {ComposeDeltasOfLen(k, ch) : k \in 0..MaxOps}

\* a delta applies to a text it does not reach beyond
Applicable(delta, text) == BaseLength(delta) <= Len(text)

ComposeInputs ==
  /\ cText \in {SubSeq(ComposeText, 1, k) : k \in 0..Len(ComposeText)}
  /\ cThis \in {d \in ComposeDeltas("x") : Applicable(d, cText)}
  /\ cOther \in {d \in ComposeDeltas("y") :
                   Applicable(d, updateContents(cText, cThis))}
  /\ cNext = <<>>
  /\ cResult = NoComposed

\* a caller evaluates cThis.compose(cOther), as the text-change handler does
\* with the document's delta and the incoming one
CallCompose ==
  /\ cResult.kind = "none"
  /\ cResult' = [kind |-> "composed", delta |-> ComposeOnto(cThis, cOther)]
  /\ UNCHANGED <<cText, cThis, cOther, cNext, sysvars, tvars, debouncevars>>

InitCompose == SysInit /\ TIdle /\ DebounceIdle /\ ComposeInputs

NextCompose == CallCompose

SpecCompose == InitCompose /\ [][NextCompose]_vars

(***************************************************************************)
(* Three deltas in sequence, composed in the two possible groupings, as    *)
(* the text-change handler composes successive operations onto a state.    *)
(***************************************************************************)
\* the longest first and third delta drawn
MaxOuterOps == 2

OuterDeltas(ch) == UNION {ComposeDeltasOfLen(k, ch) : k \in 0..MaxOuterOps}

AssocInputs ==
  /\ cText \in {SubSeq(ComposeText, 1, k) : k \in 0..Len(ComposeText)}
  /\ cThis \in {d \in OuterDeltas("x") : Applicable(d, cText)}
  /\ cOther \in {d \in ComposeDeltas("y") :
                   Applicable(d, updateContents(cText, cThis))}
  /\ cNext \in {d \in OuterDeltas("z") :
                  Applicable(d, updateContents(updateContents(cText, cThis),
                                               cOther))}
  /\ cResult = NoComposed

\* (cThis.compose(cOther)).compose(cNext)
CallComposeLeft ==
  /\ cResult.kind = "none"
  /\ cResult' = [kind |-> "left",
                 delta |-> ComposeOnto(ComposeOnto(cThis, cOther), cNext)]
  /\ UNCHANGED <<cText, cThis, cOther, cNext, sysvars, tvars, debouncevars>>

\* cThis.compose(cOther.compose(cNext))
CallComposeRight ==
  /\ cResult.kind = "none"
  /\ cResult' = [kind |-> "right",
                 delta |-> ComposeOnto(cThis, ComposeOnto(cOther, cNext))]
  /\ UNCHANGED <<cText, cThis, cOther, cNext, sysvars, tvars, debouncevars>>

InitAssoc == SysInit /\ TIdle /\ DebounceIdle /\ AssocInputs

NextAssoc == CallComposeLeft \/ CallComposeRight

SpecAssoc == InitAssoc /\ [][NextAssoc]_vars

(***************************************************************************)
(* The debounced cursor re-renders of one mounted editor (part_003):       *)
(* debouncedUpdateCursor, the callback of its setTimeout, removeCursor.    *)
(* Keys are the socket ids of participants; a timeout handle is the number *)
(* of the call that set it.                                                *)
(***************************************************************************)
\* calls of debouncedUpdateCursor and removeCursor in a run
MaxCalls == 3

CursorKeys == {"s2", "s3"}

CursorRanges == {Null, [index |-> 0, length |-> 0], [index |-> 1, length |-> 0]}

TimeoutOf(handle, userId, range) ==
  [handle |-> handle, userId |-> userId, range |-> range]

TimeoutRecords ==
  {TimeoutOf(h, k, r) : h \in 1..MaxCalls, k \in CursorKeys, r \in CursorRanges}

\* a clearTimeout that cancels nothing
ClearNothing(pending, handle) == pending

\* clearTimeout(handle): the callback with that handle will not run
ClearTimeout(pending, handle) == {t \in pending : t.handle # handle}

\* debouncedUpdateCursor(userId, user, range, immediate); updateCursor with
\* a null range removes the cursor
DebouncedUpdateCursor(userId, range, immediate) ==
  /\ calls < MaxCalls
  /\ calls' = calls + 1
  /\ lastCall' = [lastCall EXCEPT ![userId] = calls + 1]
  /\ LET cleared == ClearTimeout(timeouts, cursorUpdateTimeouts[userId])
     IN IF immediate
        THEN /\ timeouts' = cleared
             /\ cursorsRef' = [cursorsRef EXCEPT ![userId] = range]
             /\ cursorUpdateTimeouts' =
                  IF range = Null
                  THEN [cursorUpdateTimeouts EXCEPT ![userId] = NoTimeout]
                  ELSE cursorUpdateTimeouts
        ELSE /\ timeouts' = cleared \cup {TimeoutOf(calls + 1, userId, range)}
             /\ cursorUpdateTimeouts' =
                  [cursorUpdateTimeouts EXCEPT ![userId] = calls + 1]
             /\ cursorsRef' = cursorsRef
  /\ UNCHANGED <<fired, sysvars, tvars, composevars>>

\* the callback of the setTimeout(.., 50) of debouncedUpdateCursor
TimeoutFires(t) ==
  /\ t \in timeouts
  /\ timeouts' = timeouts \ {t}
  /\ cursorsRef' = [cursorsRef EXCEPT ![t.userId] = t.range]
  /\ cursorUpdateTimeouts' = [cursorUpdateTimeouts EXCEPT ![t.userId] = NoTimeout]
  /\ fired' = fired \cup {t}
  /\ UNCHANGED <<calls, lastCall, sysvars, tvars, composevars>>

\* removeCursor(userId), as the user-disconnect handler calls it
RemoveCursor(userId) ==
  /\ calls < MaxCalls
  /\ calls' = calls + 1
  /\ lastCall' = [lastCall EXCEPT ![userId] = calls + 1]
  /\ cursorsRef' = [cursorsRef EXCEPT ![userId] = Null]
  /\ timeouts' = ClearTimeout(timeouts, cursorUpdateTimeouts[userId])
  /\ cursorUpdateTimeouts' = [cursorUpdateTimeouts EXCEPT ![userId] = NoTimeout]
  /\ UNCHANGED <<fired, sysvars, tvars, composevars>>

InitDebounce == SysInit /\ TIdle /\ ComposeIdle /\ DebounceIdle

NextDebounce ==
  \/ \E userId \in CursorKeys, range \in CursorRanges, immediate \in BOOLEAN :
       DebouncedUpdateCursor(userId, range, immediate)
  \/ \E t \in TimeoutRecords : TimeoutFires(t)
  \/ \E userId \in CursorKeys : RemoveCursor(userId)

SpecDebounce == InitDebounce /\ [][NextDebounce]_vars

\* a timeout that is not cleared runs: the browser calls every due callback
FairDebounce ==
  /\ SpecDebounce
  /\ \A userId \in CursorKeys :
       WF_vars(\E t \in TimeoutRecords : t.userId = userId /\ TimeoutFires(t))

\* The sweep alone, on directories that hold participants whose socket is not
\* connected any more: each document holds joined participants among the
\* editors mounted on it, in any order, each with or without a cursor.
Caret == [index |-> 0, length |-> 0]

Entries(c) ==
  {[socketId |-> c, id |-> TwoDocuments[c].id, name |-> TwoDocuments[c].name,
    cursor |-> r] : r \in {Null, Caret}}

Directories(d) ==
  LET on == {c \in Conns : TwoDocuments[c].documentId = d}
  IN {<<>>}
       \cup UNION {{<<x>> : x \in Entries(a)} : a \in on}
       \cup UNION {UNION {{<<x, y>> : x \in Entries(a), y \in Entries(b)} :
                            b \in on \ {a}} : a \in on}

Joined(d) == {documents[d].users[i].socketId : i \in 1..Len(documents[d].users)}

Stale(d) == Joined(d) \ sockets

InitS ==
  /\ mounted = TwoDocuments
  /\ sockets \in SUBSET Conns
  /\ documents \in [Docs -> [delta : {<<>>, <<Insert(<<"a">>)>>},
                             users : UNION {Directories(d) : d \in Docs}]]
  /\ \A d \in Docs : documents[d].users \in Directories(d)
  /\ \E d \in Docs : Stale(d) # {}
  /\ docOrder = <<"d1", "d2">>
  /\ rooms = [d \in Docs |-> Joined(d) \cap sockets]
  /\ phase = [c \in Conns |->
                IF c \in sockets THEN "connected"
                ELSE IF \E d \in Docs : c \in Stale(d) THEN "closed"
                ELSE "idle"]
  /\ NothingSent
  /\ Idle

SpecS == InitS /\ [][Sweep]_vars

\* An editing session under way: the editors on s1 and s2 have joined d1 (s1
\* first), s2 has pasted a text and holds some selection in it, and everything
\* sent has been delivered.  The counters bound what happens from here on.
MidText == <<"b", "b", "b", "b">>

Participant(c, cursor) ==
  [socketId |-> c, id |-> TwoDocuments[c].id, name |-> TwoDocuments[c].name,
   cursor |-> cursor]

Selections(text) ==
  {r \in Ranges(text) : r.index + r.length <= Len(text)} \cup {Null}

InitC ==
  /\ mounted = TwoDocuments
  /\ sockets = {"s1", "s2"}
  /\ docOrder = <<"d1">>
  /\ rooms = [d \in Docs |-> IF d = "d1" THEN {"s1", "s2"} ELSE {}]
  /\ phase = [c \in Conns |-> IF c \in {"s1", "s2"} THEN "connected" ELSE "idle"]
  /\ content = [c \in Conns |-> IF c \in {"s1", "s2"} THEN MidText ELSE <<>>]
  /\ \E sel \in Selections(MidText) :
       /\ documents =
            [d \in Docs |->
               IF d = "d1"
               THEN [delta |-> <<Insert(MidText)>>,
                     users |-> <<Participant("s1", Null), Participant("s2", sel)>>]
               ELSE NewDocument]
       /\ selection = [c \in Conns |-> IF c = "s2" THEN sel ELSE Null]
       /\ userCursors =
            [c \in Conns |-> [u \in UserIds |->
               IF c = "s1" /\ u = "u2" THEN sel ELSE Null]]
       /\ activeHighlights =
            [c \in Conns |-> [u \in UserIds |->
               IF c = "s1" /\ u = "u2" THEN HighlightOf(sel) ELSE Null]]
       /\ highlighted =
            [c \in Conns |->
               IF c = "s2" /\ HighlightOf(sel) # Null THEN {sel} ELSE {}]
  /\ dropped = 0
  /\ usersRef = [c \in Conns |->
                   IF c = "s1" THEN <<Participant("s2", Null)>>
                   ELSE IF c = "s2" THEN <<Participant("s1", Null)>>
                   ELSE <<>>]
  /\ c2s = [c \in Conns |-> <<>>]
  /\ s2c = [c \in Conns |-> <<>>]
  /\ selTimers = [c \in Conns |-> 0]
  /\ opCount = 0
  /\ selCount = 0
  /\ resetCount = 0
  /\ closeCount = 0
  /\ composed = [d \in Docs |->
                   IF d = "d1"
                   THEN <<[tag |-> 0, from |-> "s2", delta |-> <<Insert(MidText)>>]>>
                   ELSE <<>>]
  /\ resetAt = [d \in Docs |-> 0]
  /\ applied = [c \in Conns |-> IF c = "s1" THEN <<0>> ELSE <<>>]
  /\ joinPoint = [c \in Conns |-> 0]
  /\ Idle

\* s1 edits, s2 selects and formats; nobody joins, leaves or resets
NextC ==
  \/ \E delta \in UserDeltas("s1", content["s1"]) : UserEdit("s1", delta)
  \/ \E range \in Selections(content["s2"]) : UserSelect("s2", range)
  \/ UserFormat("s2")
  \/ \E c \in Conns : SelectionTimer(c)
  \/ \E c \in Conns : ServerTextChange(c)
  \/ \E c \in Conns : ServerSelectionChange(c)
  \/ \E c \in Conns : ServerHighlightChange(c)
  \/ \E c \in Conns : RecvTextChange(c)
  \/ \E c \in Conns : RecvCursorChange(c)
  \/ \E c \in Conns : RecvHighlightChange(c)

SpecC == InitC /\ [][NextC]_vars

\* The same session with nothing selected, in which s1 and s2 both edit the
\* text; each edit's timer reports the caret, the server and the clients
\* process what they receive
InitE == InitC /\ selection["s2"] = Null

NextE ==
  \/ \E c \in {"s1", "s2"} :
       \E delta \in UserDeltas(c, content[c]) : UserEdit(c, delta)
  \/ \E c \in Conns : SelectionTimer(c)
  \/ \E c \in Conns : ServerTextChange(c)
  \/ \E c \in Conns : ServerSelectionChange(c)
  \/ \E c \in Conns : RecvTextChange(c)
  \/ \E c \in Conns : RecvCursorChange(c)

SpecE == InitE /\ [][NextE]_vars

\* Runs of sequential edits: a user edits a document only when no operation
\* for it is on its way to the server or to a client, and nobody resets
OperationInFlight(d) ==
  \/ \E c \in Conns : \E i \in 1..Len(c2s[c]) :
       c2s[c][i].ev = "text-change" /\ c2s[c][i].documentId = d
  \/ \E c \in Conns : \E i \in 1..Len(s2c[c]) :
       s2c[c][i].ev = "text-change" /\ s2c[c][i].doc = d

SequentialEdit(c, delta) ==
  /\ ~OperationInFlight(documentId(c))
  /\ UserEdit(c, delta)

NextQ ==
  \/ \E c \in Conns : ServerUserJoin(c)
  \/ \E c \in Conns : ServerTextChange(c)
  \/ \E c \in Conns : ServerSelectionChange(c)
  \/ \E c \in Conns : ServerHighlightChange(c)
  \/ \E c \in Conns : ClientStep(c)
  \/ \E c \in Conns : Connect(c)
  \/ \E c \in Conns : \E delta \in UserDeltas(c, content[c]) : SequentialEdit(c, delta)
  \/ \E c \in Conns : \E range \in Ranges(content[c]) \cup {Null} : UserSelect(c, range)
  \/ \E c \in Conns : Disconnect(c)

SpecQ == Init /\ [][NextQ]_vars

\* A session of three editors of d1 under way: the text is "bbbb", s2 holds
\* a selection that s1 and s3 have received; s1 edits
ThreeEditors ==
  [c \in Conns |-> [documentId |-> "d1", id |-> TwoDocuments[c].id,
                    name |-> TwoDocuments[c].name]]

InitH ==
  /\ mounted = ThreeEditors
  /\ sockets = Conns
  /\ docOrder = <<"d1">>
  /\ rooms = [d \in Docs |-> IF d = "d1" THEN Conns ELSE {}]
  /\ phase = [c \in Conns |-> "connected"]
  /\ content = [c \in Conns |-> MidText]
  /\ \E sel \in Selections(MidText) :
       /\ documents =
            [d \in Docs |->
               IF d = "d1"
               THEN [delta |-> <<Insert(MidText)>>,
                     users |-> <<Participant("s1", Null), Participant("s2", sel),
                                 Participant("s3", Null)>>]
               ELSE NewDocument]
       /\ selection = [c \in Conns |-> IF c = "s2" THEN sel ELSE Null]
       /\ userCursors =
            [c \in Conns |-> [u \in UserIds |->
               IF c # "s2" /\ u = "u2" THEN sel ELSE Null]]
       /\ activeHighlights =
            [c \in Conns |-> [u \in UserIds |->
               IF c # "s2" /\ u = "u2" THEN HighlightOf(sel) ELSE Null]]
       /\ highlighted =
            [c \in Conns |->
               IF c = "s2" /\ HighlightOf(sel) # Null THEN {sel} ELSE {}]
  /\ dropped = 0
  /\ usersRef =
       [c \in Conns |->
          SelectSeq(<<Participant("s1", Null), Participant("s2", Null),
                      Participant("s3", Null)>>,
                    LAMBDA u : u.socketId # c)]
  /\ c2s = [c \in Conns |-> <<>>]
  /\ s2c = [c \in Conns |-> <<>>]
  /\ selTimers = [c \in Conns |-> 0]
  /\ opCount = 0
  /\ selCount = 0
  /\ resetCount = 0
  /\ closeCount = 0
  /\ composed = [d \in Docs |->
                   IF d = "d1"
                   THEN <<[tag |-> 0, from |-> "s2", delta |-> <<Insert(MidText)>>]>>
                   ELSE <<>>]
  /\ resetAt = [d \in Docs |-> 0]
  /\ applied = [c \in Conns |-> IF c = "s2" THEN <<>> ELSE <<0>>]
  /\ joinPoint = [c \in Conns |-> 0]
  /\ Idle

NextH ==
  \/ \E delta \in UserDeltas("s1", content["s1"]) : UserEdit("s1", delta)
  \/ \E c \in Conns : SelectionTimer(c)
  \/ \E c \in Conns : ServerTextChange(c)
  \/ \E c \in Conns : ServerSelectionChange(c)
  \/ \E c \in Conns : RecvTextChange(c)
  \/ \E c \in Conns : RecvCursorChange(c)

SpecH == InitH /\ [][NextH]_vars

\* The server facing a connection that is not an editor.  The editors on s1
\* and s2 have joined the empty document d1 and nothing is in flight; s2's
\* connection then sends events of its own making: any of the five events
\* without a documentId, and one text-change whose operation is malformed, or
\* does not fit the document, or is missing; once the server has processed
\* it, s1 goes on editing.  The operations received are not applied by the
\* editors here.
MaxRaw == 2

EventNames ==
  {"user-join", "text-change", "selection-change", "highlight-change",
   "reset-document"}

RawDeltas ==
  {<<Delete(-1)>>, <<Retain(-1), Insert(<<"c">>)>>, <<Delete(1)>>,
   <<Retain(2), Insert(<<"c">>)>>, NoDelta}

RawMissingId(c, ev) ==
  /\ phase[c] = "connected"
  /\ dropped + Len(c2s[c]) < MaxRaw
  /\ c2s' = Emit(c2s, c, <<ClientMsg(ev, NoDocumentId, <<>>, Null, 0)>>)
  /\ UNCHANGED <<servervars, s2c, clientvars, countvars, historyvars, tvars, composevars, debouncevars,
                 mounted>>

RawOperation(c, delta) ==
  /\ phase[c] = "connected"
  /\ opCount = 0
  /\ opCount' = opCount + 1
  /\ c2s' = Emit(c2s, c, <<ClientMsg("text-change", documentId(c), delta, Null,
                                     opCount + 1)>>)
  /\ UNCHANGED <<servervars, s2c, clientvars, selCount, resetCount, closeCount,
                 historyvars, tvars, composevars, debouncevars, mounted>>

\* the server has processed the operation that connection c sent
OperationProcessed(c) ==
  /\ opCount >= 1
  /\ \A i \in 1..Len(c2s[c]) : c2s[c][i].ev # "text-change"

InitM ==
  /\ mounted = TwoDocuments
  /\ sockets = {"s1", "s2"}
  /\ docOrder = <<"d1">>
  /\ rooms = [d \in Docs |-> IF d = "d1" THEN {"s1", "s2"} ELSE {}]
  /\ documents =
       [d \in Docs |->
          IF d = "d1"
          THEN [delta |-> <<>>,
                users |-> <<Participant("s1", Null), Participant("s2", Null)>>]
          ELSE NewDocument]
  /\ phase = [c \in Conns |-> IF c \in {"s1", "s2"} THEN "connected" ELSE "idle"]
  /\ usersRef = [c \in Conns |->
                   IF c = "s1" THEN <<Participant("s2", Null)>>
                   ELSE IF c = "s2" THEN <<Participant("s1", Null)>>
                   ELSE <<>>]
  /\ c2s = [c \in Conns |-> <<>>]
  /\ s2c = [c \in Conns |-> <<>>]
  /\ content = [c \in Conns |-> <<>>]
  /\ selection = [c \in Conns |-> Null]
  /\ userCursors = [c \in Conns |-> [u \in UserIds |-> Null]]
  /\ activeHighlights = [c \in Conns |-> [u \in UserIds |-> Null]]
  /\ selTimers = [c \in Conns |-> 0]
  /\ opCount = 0
  /\ selCount = 0
  /\ resetCount = 0
  /\ closeCount = 0
  /\ composed = [d \in Docs |-> <<>>]
  /\ resetAt = [d \in Docs |-> 0]
  /\ applied = [c \in Conns |-> <<>>]
  /\ joinPoint = [c \in Conns |-> 0]
  /\ highlighted = [c \in Conns |-> {}]
  /\ dropped = 0
  /\ Idle

NextM ==
  \/ \E ev \in EventNames : RawMissingId("s2", ev)
  \/ \E delta \in RawDeltas : RawOperation("s2", delta)
  \/ /\ OperationProcessed("s2")
     /\ \E delta \in UserDeltas("s1", content["s1"]) : UserEdit("s1", delta)
  \/ \E c \in Conns : ServerDrop(c)
  \/ \E c \in Conns : ServerTextChange(c)

SpecM == InitM /\ [][NextM]_vars

\* the same system with all three editors on one document
InitR == Constructed /\ mounted = OneDocument /\ Idle

SpecR == InitR /\ [][Next]_vars

(***************************************************************************)
(* Claims about the synchronization between clients and server             *)
(***************************************************************************)
\* no message is in flight, in either direction
Quiescent ==
  \A c \in Conns : c2s[c] = <<>> /\ s2c[c] = <<>>

\* the connections subscribed to document d
Subscribers(d) == {c \in Conns : c \in rooms[d] /\ documentId(c) = d}

\* the text a document state renders to
TextOf(delta) == setContents(delta)

\* the operations of h from index i on, composed in order onto acc
RECURSIVE FoldCompose(_, _, _)
FoldCompose(h, i, acc) ==
  IF i > Len(h) THEN acc ELSE FoldCompose(h, i + 1, Compose(acc, h[i].delta))

\* the tags of the operations in a sequence of bookkeeping entries or messages
TagsOf(seq) == [i \in 1..Len(seq) |-> seq[i].tag]

\* the operations of c's document composed since c joined, by others
RelayedTo(c) ==
  LET h == composed[documentId(c)]
      idx == SelectSeq([i \in 1..Len(h) |-> i],
                       LAMBDA i : i > joinPoint[c] /\ h[i].from # c)
  IN [k \in 1..Len(idx) |-> h[idx[k]].tag]

\* the operations on their way to c
PendingAt(c) ==
  TagsOf(SelectSeq(s2c[c], LAMBDA m : m.ev = "text-change"))

\* the events that are broadcast on behalf of a connection
EchoEvents == {"text-change", "cursor-change", "highlight-change", "user-disconnect"}

\* C1: convergence -- in a run of local edits that the clients of a document
\* make once all of them have joined (no reset, nobody leaves), when no
\* message is in flight, the content of every client is the server's
\* DocumentState of the document.
C1_Convergence ==
  (Quiescent /\ resetCount = 0 /\ closeCount = 0)
    => \A d \in Docs :
         (\A c \in Subscribers(d) : joinPoint[c] = 0)
           => \A c \in Subscribers(d) : content[c] = TextOf(documents[d].delta)

\* C2 as stated: single sequencer -- the DocumentState of a document is the
\* composition, in arrival order, of all the operations the server processed
\* for it.
C2_StateIsFoldOfAllOperations ==
  \A d \in Docs : documents[d].delta = FoldCompose(composed[d], 1, <<>>)

\* C2, amended: the DocumentState of a document is the composition, in arrival
\* order, of the operations the server processed for it since its last reset,
\* each composed onto the state the previous one produced.
C2_StateIsFoldSinceReset ==
  \A d \in Docs :
    documents[d].delta = FoldCompose(composed[d], resetAt[d] + 1, <<>>)

\* two operations from different connections have been composed into a document
C2_Witness ==
  \E d \in Docs :
    /\ Len(composed[d]) = 2
    /\ composed[d][1].from # composed[d][2].from
    /\ resetAt[d] = 0
    /\ Len(documents[d].delta) = 1
    /\ Len(documents[d].delta[1].s) = 2

\* C3: ordered exactly-once relay -- for every subscribed connection, the
\* operations it has applied followed by those on their way to it are exactly
\* the operations of others that the server composed into its document since
\* it joined, each once and in the order of composition.
C3_OrderedExactlyOnceRelay ==
  \A d \in Docs : \A c \in Subscribers(d) :
    applied[c] \o PendingAt(c) = RelayedTo(c)

\* a connection has applied two relayed operations
C3_Witness ==
  \E c \in Conns :
    /\ c \in Subscribers(documentId(c))
    /\ Len(applied[c]) = 2
    /\ applied[c] = RelayedTo(c)

\* C4: no echo -- no broadcast of an operation, a selection change, a
\* highlight change or a disconnect is delivered to the connection it stems
\* from.
C4_NoEcho ==
  \A c \in Conns : \A i \in 1..Len(s2c[c]) :
    s2c[c][i].ev \in EchoEvents => s2c[c][i].userId # c

\* the broadcast of a subscriber's operation is on its way to another
\* subscriber, and none is on its way to the sender
C4_Witness ==
  \E c \in Conns : \E i \in 1..Len(s2c[c]) :
    LET m == s2c[c][i]
    IN /\ m.ev = "text-change"
       /\ m.userId # c
       /\ m.userId \in rooms[m.doc]
       /\ s2c[m.userId] = <<>>

\* C5: document-scoped routing -- an event about a document is on its way only
\* to connections that have joined that document.
C5_DocumentScopedRouting ==
  \A c \in Conns : \A i \in 1..Len(s2c[c]) : c \in rooms[s2c[c][i].doc]

\* an operation of one document is on its way to a subscriber of it while a
\* connection that joined only the other document receives nothing
C5_Witness ==
  \E c \in Conns : \E x \in Conns : \E i \in 1..Len(s2c[c]) :
    LET m == s2c[c][i]
    IN /\ m.ev = "text-change"
       /\ c \in rooms[m.doc]
       /\ x \notin rooms[m.doc]
       /\ \E d \in Docs : x \in rooms[d]
       /\ s2c[x] = <<>>

(***************************************************************************)
(* Claims about presence: cursors, highlights, joins and departures        *)
(***************************************************************************)
\* connection c has processed everything the server emitted for the closing
\* of connection p
ProcessedClosingOf(c, p) ==
  /\ p # c
  /\ phase[p] = "closed"
  /\ phase[c] = "connected"
  /\ \A i \in 1..Len(s2c[c]) :
       ~(s2c[c][i].ev = "user-disconnect" /\ s2c[c][i].userId = p)

\* C11: remote disconnect cleanup -- once a remaining client has processed the
\* presence list and the disconnect notification the server emitted for a
\* closed connection, it holds no cached cursor and no active highlight for
\* that connection's participant.
C11_RemoteDisconnectCleanup ==
  \A c \in Conns : \A p \in Conns :
    ProcessedClosingOf(c, p)
      => /\ userCursors[c][UserOf(p).id] = Null
         /\ activeHighlights[c][UserOf(p).id] = Null

\* the operation numbered t was relayed to q ahead of position i of its
\* queue, or was composed before q joined
OperationAhead(q, t, i) ==
  \/ \E k \in 1..Len(applied[q]) : applied[q][k] = t
  \/ \E j \in 1..(i - 1) : s2c[q][j].ev = "text-change" /\ s2c[q][j].tag = t
  \/ \E k \in 1..Len(composed[documentId(q)]) :
       composed[documentId(q)][k].tag = t /\ k <= joinPoint[q]

\* C14: operation before selection -- the selection a client re-emits after a
\* local edit is behind that edit's operation on its way to the server, and
\* the cursor-change carrying it reaches a peer only behind that operation.
C14_OperationBeforeSelection ==
  /\ \A c \in Conns : \A i \in 1..Len(c2s[c]) :
       (c2s[c][i].ev = "selection-change" /\ c2s[c][i].tag > 0)
         => \A j \in i..Len(c2s[c]) :
              ~(c2s[c][j].ev = "text-change" /\ c2s[c][j].tag = c2s[c][i].tag)
  /\ \A q \in Conns : \A i \in 1..Len(s2c[q]) :
       (s2c[q][i].ev = "cursor-change" /\ s2c[q][i].tag > 0)
         => OperationAhead(q, s2c[q][i].tag, i)

\* a peer has applied an operation and the cursor-change with the editor's
\* selection after that edit is next in its queue
C14_Witness ==
  \E q \in Conns :
    /\ s2c[q] # <<>>
    /\ Head(s2c[q]).ev = "cursor-change"
    /\ Head(s2c[q]).tag > 0
    /\ Head(s2c[q]).range = [index |-> 1, length |-> 0]
    /\ \E k \in 1..Len(applied[q]) : applied[q][k] = Head(s2c[q]).tag

\* queue q ends with the presence list of d without connection c, followed
\* by the disconnect notification of c
EndsWithLeaveOf(q, d, c) ==
  /\ Len(q) >= 2
  /\ LET update == q[Len(q) - 1]
         notice == q[Len(q)]
     IN /\ update.ev = "users-update" /\ update.doc = d
        /\ ~HasUser(update.users, c)
        /\ notice.ev = "user-disconnect" /\ notice.doc = d
        /\ notice.userId = c

\* C18: leave -- when the connection of a participant closes, it is removed
\* from every session it was in, and every remaining subscriber of such a
\* session is sent the presence list without it and then a disconnect
\* notification carrying its connection id.
C18_Leave ==
  [][\A c \in Conns :
       (phase[c] = "connected" /\ phase'[c] = "closed")
         => \A d \in Docs :
              /\ ~HasUser(documents'[d].users, c)
              /\ HasUser(documents[d].users, c)
                   => \A q \in rooms[d] \ {c} :
                        /\ Len(s2c'[q]) = Len(s2c[q]) + 2
                        /\ SubSeq(s2c'[q], 1, Len(s2c[q])) = s2c[q]
                        /\ EndsWithLeaveOf(s2c'[q], d, c)
                        /\ s2c'[q][Len(s2c'[q]) - 1].users =
                             SelectSeq(documents[d].users,
                                       LAMBDA u : u.socketId # c)]_vars

\* a participant's connection has closed and a remaining subscriber has the
\* two events of its leaving at the end of its queue
C18_Witness ==
  \E c \in Conns : \E q \in Conns : \E d \in Docs :
    /\ phase[c] = "closed"
    /\ q \in rooms[d]
    /\ ~HasUser(documents[d].users, c)
    /\ HasUser(documents[d].users, q)
    /\ EndsWithLeaveOf(s2c[q], d, c)

\* no two participants of a session have the same display name
NamesUnique(users) ==
  \A i \in 1..Len(users) : \A j \in 1..Len(users) :
    users[i].name = users[j].name => i = j

\* this step is the server processing the user-join of connection c
JoinStepOf(c) ==
  /\ c2s[c] # <<>>
  /\ Head(c2s[c]).ev = "user-join"
  /\ c2s'[c] = Tail(c2s[c])
  /\ phase'[c] = "connected"

\* C16: reconnection dedup -- no session ever holds two participants with the
\* same display name, and right after the join of connection c the only
\* participant of the session with c's display name is the one keyed by c.
C16_ReconnectionDedup ==
  /\ [](\A d \in Docs : NamesUnique(documents[d].users))
  /\ [][\A c \in Conns :
          JoinStepOf(c)
            => LET users == documents'[documentId(c)].users
               IN /\ HasUser(users, c)
                  /\ GetUser(users, c).name = UserOf(c).name
                  /\ \A i \in 1..Len(users) :
                       users[i].name = UserOf(c).name => users[i].socketId = c]_vars

\* a join has evicted the participant of the same name: its connection is
\* still subscribed but the session holds the name under the joiner only
C16_Witness ==
  \E c \in Conns : \E e \in Conns : \E d \in Docs :
    /\ c # e
    /\ UserOf(c).name = UserOf(e).name
    /\ e \in rooms[d] /\ c \in rooms[d]
    /\ phase[e] = "connected"
    /\ HasUser(documents[d].users, c)
    /\ ~HasUser(documents[d].users, e)

\* what a step appended to the queue of connection q
NewFor(q) == SubSeq(s2c'[q], Len(s2c[q]) + 1, Len(s2c'[q]))

\* the events of a name in a sequence of events
EventsOf(seq, ev) == SelectSeq(seq, LAMBDA m : m.ev = ev)

\* C19: join catch-up -- when the server processes the join of connection c,
\* it sends c first the session's DocumentState and then exactly one
\* cursor-change for each other participant of the session whose stored cursor
\* is non-null, carrying that participant and cursor: none for a null cursor,
\* for c itself or for a participant this join evicted; no other connection is
\* sent a snapshot or a cursor-change.
C19_JoinCatchUp ==
  [][\A c \in Conns :
       JoinStepOf(c)
         => LET d == documentId(c)
                new == NewFor(c)
                catchUp == EventsOf(new, "cursor-change")
                others == {i \in 1..Len(documents'[d].users) :
                             /\ documents'[d].users[i].socketId # c
                             /\ documents'[d].users[i].cursor # Null}
            IN /\ SubSeq(s2c'[c], 1, Len(s2c[c])) = s2c[c]
               /\ new # <<>>
               /\ new[1].ev = "load-document" /\ new[1].doc = d
               /\ new[1].delta = documents[d].delta
               /\ Len(EventsOf(new, "load-document")) = 1
               /\ Len(catchUp) = Cardinality(others)
               /\ \A i \in others :
                    \E k \in 1..Len(catchUp) :
                      /\ catchUp[k].userId = documents'[d].users[i].socketId
                      /\ catchUp[k].user = documents'[d].users[i]
                      /\ catchUp[k].range = documents'[d].users[i].cursor
                      /\ catchUp[k].doc = d
               /\ \A k \in 1..Len(catchUp) :
                    /\ catchUp[k].userId # c
                    /\ catchUp[k].range # Null
                    /\ catchUp[k].user.name # UserOf(c).name
               /\ \A q \in Conns \ {c} :
                    /\ EventsOf(NewFor(q), "cursor-change") = <<>>
                    /\ EventsOf(NewFor(q), "load-document") = <<>>]_vars

\* one joiner was sent the stored cursor of a participant, and a later joiner
\* of that participant's name, which evicted it, was sent none
C19_Witness ==
  \E c \in Conns : \E e \in Conns : \E j \in Conns :
    /\ Len(s2c[c]) >= 3
    /\ s2c[c][1].ev = "load-document"
    /\ s2c[c][2].ev = "cursor-change" /\ s2c[c][2].userId = e
    /\ s2c[c][2].range = [index |-> 0, length |-> 0]
    /\ s2c[c][3].ev = "users-update" /\ HasUser(s2c[c][3].users, e)
    /\ j # e /\ UserOf(j).name = UserOf(e).name
    /\ Len(s2c[j]) = 2
    /\ s2c[j][1].ev = "load-document"
    /\ s2c[j][2].ev = "users-update"
    /\ HasUser(s2c[j][2].users, c) /\ ~HasUser(s2c[j][2].users, e)

\* a range, or no range, carried through an operation by the range transform
RangeThrough(range, delta) ==
  IF range = Null THEN Null ELSE transformHighlightRange(range, delta)

\* C12 (originator untouched on remote operation): when a client processes a
\* remote operation, the cached cursor and the active highlight of the
\* participant who sent it stay as they were, and the cached cursor and active
\* highlight of every other participant become their transforms through the
\* operation (a highlight that collapses to length 0 is no highlight).
C12_OriginatorUntouched ==
  [][\A c \in Conns :
       RecvTextChange(c) =>
         LET msg == Head(s2c[c])
             originator == mounted[msg.userId].id
         IN /\ userCursors'[c][originator] = userCursors[c][originator]
            /\ activeHighlights'[c][originator] = activeHighlights[c][originator]
            /\ \A u \in UserIds \ {originator} :
                 /\ userCursors'[c][u] = RangeThrough(userCursors[c][u], msg.delta)
                 /\ activeHighlights'[c][u] =
                      HighlightOf(RangeThrough(activeHighlights[c][u], msg.delta))]_vars

\* C13 (local edit re-derives remote positions): when a client applies a local
\* user edit, every cached cursor and every active highlight it holds becomes
\* its transform through that edit (a highlight that collapses to length 0 is
\* no highlight).
C13_LocalEditRederives ==
  [][\A c \in Conns :
       /\ \A delta \in UserDeltas(c, content[c]) :
            UserEdit(c, delta) =>
              \A u \in UserIds :
                /\ userCursors'[c][u] = RangeThrough(userCursors[c][u], delta)
                /\ activeHighlights'[c][u] =
                     HighlightOf(RangeThrough(activeHighlights[c][u], delta))
       /\ UserFormat(c) =>
            \A u \in UserIds :
              /\ userCursors'[c][u] =
                   RangeThrough(userCursors[c][u], FormatDelta(selection[c]))
              /\ activeHighlights'[c][u] =
                   HighlightOf(RangeThrough(activeHighlights[c][u],
                                            FormatDelta(selection[c])))]_vars

\* C15 (remote cursor event): once a client has processed a cursor-change for
\* participant P with range r, its cached cursor for P is r (none if r is
\* null) and its active highlight for P is r if r has a length above 0 and
\* none if r has length 0 or is null; no other entry of the two caches changes.
C15_RemoteCursorEvent ==
  [][\A c \in Conns :
       RecvCursorChange(c) =>
         LET P == Head(s2c[c]).user.id
             r == Head(s2c[c]).range
         IN /\ userCursors'[c][P] = r
            /\ r # Null /\ r.length > 0 => activeHighlights'[c][P] = r
            /\ r = Null \/ r.length = 0 => activeHighlights'[c][P] = Null
            /\ \A u \in UserIds \ {P} :
                 /\ userCursors'[c][u] = userCursors[c][u]
                 /\ activeHighlights'[c][u] = activeHighlights[c][u]]_vars

\* s2 gave up a selection of some length for a caret, and s1 has processed the
\* cursor-change: it caches the caret and holds no highlight for s2
C15_Witness ==
  /\ selCount = 1 /\ opCount = 0
  /\ documents["d1"].delta = <<Insert(MidText)>>
  /\ c2s["s2"] = <<>> /\ s2c["s1"] = <<>>
  /\ selection["s2"] # Null /\ selection["s2"].length = 0
  /\ userCursors["s1"]["u2"] = selection["s2"]
  /\ activeHighlights["s1"]["u2"] = Null

\* C20 (setCursor): when the server processes a selection change with range r
\* from a participant, it stores r as the participant's cursor and sends a
\* cursor-change with the participant and r to every other subscriber and to
\* nobody else; and when r has a length above 0 a highlight-change for r goes
\* to the other subscribers as well: the server has relayed one for the
\* participant, or the participant has sent one that the server will relay
\* (the selection-change handler itself emits none).
C20_SetCursor ==
  [][\A c \in Conns :
       LET msg == Head(c2s[c])
           d == msg.documentId
       IN ServerSelectionChange(c) /\ HasUser(documents[d].users, c) =>
            LET u == GetUser(documents'[d].users, c)
            IN /\ u.cursor = msg.range
               /\ \A q \in Conns :
                    s2c'[q] =
                      IF q \in rooms[d] \ {c}
                      THEN Append(s2c[q],
                                  ServerMsg("cursor-change", d, c, u, <<>>,
                                            <<>>, msg.range, msg.tag))
                      ELSE s2c[q]
               /\ msg.range # Null /\ msg.range.length > 0 =>
                    \/ msg.range \in highlighted[c]
                    \/ \E j \in 1..Len(c2s'[c]) :
                         /\ c2s'[c][j].ev = "highlight-change"
                         /\ c2s'[c][j].range = msg.range]_vars

\* C17 (stale cleanup): a run of the sweep leaves no participant whose
\* connection is not live in any directory, and leaves every participant whose
\* connection is live present, unchanged and in its place; the document state
\* is not touched.
C17_StaleCleanup ==
  [][Sweep =>
       \A d \in Docs :
         /\ \A i \in 1..Len(documents'[d].users) :
              documents'[d].users[i].socketId \in sockets
         /\ \A c \in Joined(d) \cap sockets :
              /\ HasUser(documents'[d].users, c)
              /\ GetUser(documents'[d].users, c) = GetUser(documents[d].users, c)
         /\ Len(documents'[d].users) = Cardinality(Joined(d) \cap sockets)
         /\ documents'[d].delta = documents[d].delta]_vars

\* the sweep has run on a directory that held a stale and a live participant:
\* the live one is what is left
C17_Witness ==
  /\ \A d \in Docs : Stale(d) = {}
  /\ "s2" \notin sockets
  /\ Len(documents["d1"].users) = 1
  /\ documents["d1"].users[1].socketId = "s1"
  /\ documents["d1"].users[1].cursor = Caret

(***************************************************************************)
(* Claims about resets, snapshots, sessions and rejected events            *)
(***************************************************************************)
\* the snapshot event the server sends for a document whose state is delta
SnapshotEvent(d, delta) ==
  ServerMsg("load-document", d, "", NoUser, <<>>, delta, Null, 0)

\* C21 (reset): when the server processes a reset of a document, the
\* document's state becomes the empty sequence, its participant directory
\* stays as it was, and a snapshot event with empty content is appended to
\* the queue of every subscriber of the document (the requester included when
\* it is one) and of nobody else.
C21_Reset ==
  [][\A c \in Conns :
       ServerResetDocument(c) =>
         LET d == Head(c2s[c]).documentId
         IN /\ documents'[d].delta = <<>>
            /\ documents'[d].users = documents[d].users
            /\ \A q \in Conns :
                 s2c'[q] = IF q \in rooms[d]
                           THEN Append(s2c[q], SnapshotEvent(d, <<>>))
                           ELSE s2c[q]
            /\ \A e \in Docs \ {d} : documents'[e] = documents[e]]_vars

\* a subscriber's reset of a document that had content has been processed:
\* the state is empty and the empty snapshot is the last event queued for both
\* subscribers, the requester among them
C21_Witness ==
  /\ resetCount = 1
  /\ composed["d1"] # <<>>
  /\ resetAt["d1"] = Len(composed["d1"])
  /\ documents["d1"].delta = <<>>
  /\ rooms["d1"] = {"s1", "s2"}
  /\ \A q \in {"s1", "s2"} :
       /\ s2c[q] # <<>>
       /\ s2c[q][Len(s2c[q])] = SnapshotEvent("d1", <<>>)

\* C22 (snapshot is a full reload): when a client processes a snapshot event,
\* its local content becomes the content of that snapshot, whatever it was
\* before and also when the snapshot is empty.
C22_SnapshotIsFullReload ==
  [][\A c \in Conns :
       RecvLoadDocument(c) => content'[c] = TextOf(Head(s2c[c]).delta)]_vars

\* C23 (missing documentId): when the server processes a join, operation,
\* selection-change, highlight-change or reset event that carries no
\* documentId, no session is created, no session's state or participant
\* directory changes, no room changes and nothing is sent to any connection.
C23_MissingDocumentId ==
  [][\A c \in Conns :
       ServerDrop(c) =>
         /\ docOrder' = docOrder
         /\ documents' = documents
         /\ rooms' = rooms
         /\ sockets' = sockets
         /\ s2c' = s2c]_vars

\* the server has returned early on events of s2 that carried no documentId;
\* the session of d1 and its two participants are as they were
C23_Witness ==
  /\ dropped = MaxRaw
  /\ opCount = 0
  /\ docOrder = <<"d1">>
  /\ documents["d1"] =
       [delta |-> <<>>,
        users |-> <<Participant("s1", Null), Participant("s2", Null)>>]
  /\ \A c \in Conns : s2c[c] = <<>>

\* structural validation of an operation sequence: every operation is a
\* retain, an insert or a delete, and no count is negative
Valid(delta) ==
  \A i \in 1..Len(delta) :
    /\ delta[i].t \in {"retain", "insert", "delete"}
    /\ delta[i].n >= 0

\* C24 (malformed operation rejected): when the server processes an operation
\* that fails structural validation, every document's state and directory
\* stay as they were and nothing is sent to any connection.
C24_MalformedOperationRejected ==
  [][\A c \in Conns :
       ServerTextChange(c) /\ ~Valid(Head(c2s[c]).delta) =>
         documents' = documents /\ s2c' = s2c]_vars

\* C25 (compose is all-or-nothing): when the server processes an operation
\* whose composition fails, or a well-formed operation that does not fit the
\* length of the document's state, every document's state stays as it was
\* and nothing is sent to any connection.
C25_ComposeAllOrNothing ==
  [][\A c \in Conns :
       LET msg == Head(c2s[c])
       IN /\ ServerTextChange(c)
          /\ \/ msg.delta = NoDelta
             \/ /\ Valid(msg.delta)
                /\ BaseLength(msg.delta) >
                     ContentLength(documents[msg.documentId].delta)
          => documents' = documents /\ s2c' = s2c]_vars

\* some connection may have joined document d: an editor of d is in its room,
\* or was connected and has closed
MayHaveJoined(d) ==
  \E c \in Conns : documentId(c) = d /\ (c \in rooms[d] \/ phase[c] = "closed")

\* C29 (session creation): a session exists for a document only if some
\* connection has joined it, and a session that exists is never destroyed.
C29_SessionCreation ==
  /\ [](\A d \in Docs : HasDocument(d) => MayHaveJoined(d))
  /\ [][\A d \in Docs : HasDocument(d) => HasDocument(d)']_vars

\* C27 (server cursors follow the document): in every reachable state every
\* cursor stored in a session's participant directory lies inside the
\* document's state: its index plus its length is at most the length of the
\* state's content.
C27_ServerCursorsFollow ==
  \A d \in Docs :
    \A i \in 1..Len(documents[d].users) :
      LET cursor == documents[d].users[i].cursor
      IN cursor # Null =>
           cursor.index + cursor.length <= ContentLength(documents[d].delta)

\* C26 (snapshot invariant): in every reachable state the state of every
\* document consists of insert operations only.
C26_SnapshotInvariant ==
  \A d \in Docs :
    \A i \in 1..Len(documents[d].delta) : documents[d].delta[i].t = "insert"

\* C30 (compose semantics): for a content D0, a well-formed delta A that
\* applies to D0 and a well-formed delta B that applies to the result,
\* applying compose(A, B) to D0 gives what applying A and then B gives; and
\* when A is a document state (the snapshot of a content, D0 being empty),
\* compose(A, B) is the snapshot of the content B makes of A's content.
C30_ComposeSemantics ==
  cResult.kind = "composed" =>
    LET D1 == updateContents(cText, cThis)
        D2 == updateContents(D1, cOther)
    IN /\ updateContents(cText, cResult.delta) = D2
       /\ cText = <<>> /\ cThis = Snapshot(D1) => cResult.delta = Snapshot(D2)

\* compose was called on a document state and a delta that retains, inserts
\* and deletes inside it
C30_Witness ==
  /\ cResult.kind = "composed"
  /\ cText = <<>>
  /\ cThis = <<Insert(<<"x", "x">>)>>
  /\ cOther = <<Retain(1), Insert(<<"y">>), Delete(1)>>
  /\ cResult.delta = <<Insert(<<"x", "y">>)>>

\* C28 (debounce coalescing): at most one debounced re-render is pending per
\* participant id at any time; a call of debouncedUpdateCursor for an id
\* cancels the re-render pending for that id and leaves the pending
\* re-renders of other ids alone; a callback that runs renders its own range;
\* and a pending re-render eventually runs unless a later update or removal
\* for its id supersedes it.
C28_DebounceCoalescing ==
  /\ [](\A userId \in CursorKeys :
          Cardinality({t \in timeouts : t.userId = userId}) <= 1)
  /\ [][\A userId \in CursorKeys, range \in CursorRanges, immediate \in BOOLEAN :
          DebouncedUpdateCursor(userId, range, immediate) =>
            \A t \in timeouts : (t \in timeouts') <=> (t.userId # userId)]_vars
  /\ [][\A t \in TimeoutRecords :
          TimeoutFires(t) => cursorsRef'[t.userId] = t.range]_vars
  /\ \A t \in TimeoutRecords :
       (t \in timeouts) ~> (t \in fired \/ lastCall[t.userId] > t.handle)

\* the third call rescheduled a re-render, its callback has run and rendered
\* its range, while the re-render of the other id is still pending
C28_Witness ==
  \E f \in fired, t \in timeouts :
    /\ fired = {f}
    /\ f.handle = MaxCalls
    /\ t.handle = MaxCalls - 1
    /\ f.userId # t.userId
    /\ lastCall[f.userId] = f.handle
    /\ f.range # Null
    /\ cursorsRef[f.userId] = f.range
    /\ cursorsRef[t.userId] = Null

\* C31 (compose associativity): for a content D0 and three well-formed
\* deltas A, B, C that apply in sequence, compose(compose(A, B), C) and
\* compose(A, compose(B, C)) are the same delta.
C31_ComposeAssociativity ==
  /\ cResult.kind = "left" =>
       cResult.delta = Compose(cThis, Compose(cOther, cNext))
  /\ cResult.kind = "right" =>
       cResult.delta = Compose(Compose(cThis, cOther), cNext)

\* the two groupings were composed for "ab", an insert after the first
\* character, a replacement of that insert and a replacement of the first
\* character
C31_Witness ==
  /\ cResult.kind = "left"
  /\ cText = <<"a", "b">>
  /\ cThis = <<Retain(1), Insert(<<"x">>)>>
  /\ cOther = <<Retain(1), Delete(1), Insert(<<"y">>)>>
  /\ cNext = <<Delete(1), Insert(<<"z">>)>>
  /\ updateContents(cText, cResult.delta) = <<"z", "y", "b">>

(***************************************************************************)
(* Claims about caches, frames, feedback and presence lists                *)
(***************************************************************************)
\* C32 (active highlights are never empty): in every reachable state every
\* active highlight a client holds has a length greater than 0.
C32_HighlightsNeverEmpty ==
  \A c \in Conns : \A u \in UserIds :
    activeHighlights[c][u] # Null => activeHighlights[c][u].length > 0

\* s2's selection, which s1 and s3 held as a highlight, was emptied by s1's
\* deletes: s1 dropped the highlight on its local edits, s3 on the remote
\* operations; s1's caret, reported with length 0, made no highlight at s3
C32_Witness ==
  /\ highlighted["s2"] # {}
  /\ opCount = MaxEdits
  /\ activeHighlights["s1"]["u2"] = Null
  /\ activeHighlights["s3"]["u2"] = Null
  /\ userCursors["s3"]["u1"] # Null
  /\ userCursors["s3"]["u1"].length = 0
  /\ activeHighlights["s3"]["u1"] = Null
  /\ content["s3"] = content["s1"]
  /\ \A c \in Conns : c2s[c] = <<>> /\ s2c[c] = <<>>

\* the server takes an operation or a reset addressed to document d from
\* connection c's queue
ProcessesChangeOf(c, d) ==
  /\ c2s[c] # <<>>
  /\ Head(c2s[c]).ev \in {"text-change", "reset-document"}
  /\ Head(c2s[c]).documentId = d
  /\ c2s'[c] = Tail(c2s[c])

\* C33 (DocumentState frame): the state of a document changes only in a step
\* in which the server processes an operation or a reset addressed to that
\* document (so joins, selection-changes, highlight-changes, disconnects and
\* the sweep leave every state unchanged), and such a step leaves the state
\* and the participant directory of every other document unchanged.
C33_DocumentStateFrame ==
  [][\A d \in Docs :
       /\ documents'[d].delta # documents[d].delta =>
            \E c \in Conns : ProcessesChangeOf(c, d)
       /\ \A c \in Conns : \A e \in Docs \ {d} :
            ProcessesChangeOf(c, e) => documents'[d] = documents[d]]_vars

\* d1 holds text typed by one of its editors and s2 has left it, while d2,
\* joined by s3, is still empty
C33_Witness ==
  /\ documents["d1"].delta # <<>>
  /\ closeCount = 1
  /\ Len(documents["d1"].users) = 1
  /\ Len(documents["d2"].users) = 1
  /\ documents["d2"].delta = <<>>
  /\ \A c \in Conns : c2s[c] = <<>>

\* the operations waiting in a queue of events, and how often the local edit
\* numbered t is in flight to the server or composed into a state
OperationsIn(queue) ==
  Cardinality({i \in 1..Len(queue) : queue[i].ev = "text-change"})

TimesSent(t) ==
  LET Sum3(f) == f["s1"] + f["s2"] + f["s3"]
  IN Sum3([c \in Conns |->
             Cardinality({i \in 1..Len(c2s[c]) :
                            c2s[c][i].ev = "text-change" /\ c2s[c][i].tag = t})])

TimesComposed(t) ==
  LET n(d) == Cardinality({i \in 1..Len(composed[d]) : composed[d][i].tag = t})
  IN n("d1") + n("d2")

\* C34 (no feedback loop): a client that applies a remote operation or a
\* snapshot emits nothing; the operations in a client's outbound queue grow
\* only in a step that is a local user edit; and every local edit is in
\* flight or composed into the server's state exactly once (at most once
\* when a connection was closed with events in flight), never more.
C34_NoFeedbackLoop ==
  /\ [][\A c \in Conns :
          RecvTextChange(c) \/ RecvLoadDocument(c) => c2s' = c2s]_vars
  /\ [][\A c \in Conns :
          OperationsIn(c2s'[c]) > OperationsIn(c2s[c]) =>
            opCount' = opCount + 1]_vars
  /\ [](\A t \in 1..MaxEdits :
          /\ TimesSent(t) + TimesComposed(t) <= 1
          /\ t > opCount => TimesSent(t) + TimesComposed(t) = 0
          /\ t <= opCount /\ closeCount = 0 => TimesSent(t) + TimesComposed(t) = 1)

\* s1's two edits were composed once each and applied by s2, which had loaded
\* the snapshot of its join; nothing is left in flight
C34_Witness ==
  /\ opCount = MaxEdits
  /\ applied["s2"] = <<1, 2>>
  /\ Len(composed["d1"]) = MaxEdits
  /\ content["s2"] = content["s1"]
  /\ content["s2"] # <<>>
  /\ \A c \in Conns : c2s[c] = <<>> /\ s2c[c] = <<>>

\* C35 (sequential convergence): in a run without resets in which every local
\* edit is made only when no operation for its document is in flight,
\* whenever no operation for a document is in flight the content of every
\* client subscribed to it that has received the snapshot of its join is the
\* document's state.
C35_SequentialConvergence ==
  \A d \in Docs :
    ~OperationInFlight(d) =>
      \A c \in Subscribers(d) :
        (\A i \in 1..Len(s2c[c]) : s2c[c][i].ev # "load-document")
          => content[c] = TextOf(documents[d].delta)

\* C38 (cursor and highlight caches agree): in every reachable state, if a
\* client holds a cached cursor and an active highlight for the same
\* participant, the two have the same index and the same length.
C38_CachesAgree ==
  \A c \in Conns : \A u \in UserIds :
    userCursors[c][u] # Null /\ activeHighlights[c][u] # Null
      => userCursors[c][u] = activeHighlights[c][u]

\* who the entries of a participant list are, in order
Identities(users) ==
  [i \in 1..Len(users) |->
     [socketId |-> users[i].socketId, id |-> users[i].id, name |-> users[i].name]]

\* the directory of document d without the client on connection c itself
DirectoryWithout(d, c) ==
  SelectSeq(documents[d].users, LAMBDA u : u.id # UserOf(c).id)

WellFormed(delta) ==
  \A i \in 1..Len(delta) :
    IF delta[i].t = "insert" THEN Len(delta[i].s) > 0 ELSE delta[i].n > 0

\* where position p of the old document lies once delta has been applied:
\* pre is the position reached in the old document; atP tells whether an
\* insertion exactly at p counts as preceding p
RECURSIVE LocationAfter(_, _, _, _, _, _)
LocationAfter(delta, i, p, pre, res, atP) ==
  IF i > Len(delta) THEN res
  ELSE LET op == delta[i]
       IN IF op.t = "retain"
          THEN LocationAfter(delta, i + 1, p, pre + op.n, res, atP)
          ELSE IF op.t = "insert"
          THEN LocationAfter(delta, i + 1, p, pre,
                             IF pre < p \/ (atP /\ pre = p)
                             THEN res + Len(op.s) ELSE res, atP)
          ELSE LocationAfter(delta, i + 1, p, pre + op.n,
                             res - Min(op.n, Max(0, p - pre)), atP)

\* start, in the old document, of the span the i-th operation covers
RECURSIVE SpanStart(_, _)
SpanStart(delta, i) ==
  IF i <= 1 THEN 0
  ELSE SpanStart(delta, i - 1) + delta[i - 1].n

InsideDeletedSpan(index, length, delta) ==
  \E i \in 1..Len(delta) :
    /\ delta[i].t = "delete"
    /\ SpanStart(delta, i) <= index
    /\ index + length <= SpanStart(delta, i) + delta[i].n

IsRetainInsert(delta) ==
  Len(delta) = 2 /\ delta[1].t = "retain" /\ delta[2].t = "insert"

IsRetainDelete(delta) ==
  Len(delta) = 2 /\ delta[1].t = "retain" /\ delta[2].t = "delete"

\* C6: for a well-formed operation sequence and a position p,
\* transformCursorPosition(p, op) is the location of p after op is applied:
\* p plus the inserts whose insertion point precedes p, minus the deleted
\* units before p (whichever way an insertion exactly at p is counted).
C6_PositionIsLocationAfter ==
  (tResult.kind = "position" /\ WellFormed(tDelta))
    => \/ tResult.index = LocationAfter(tDelta, 1, tIndex, 0, tIndex, FALSE)
       \/ tResult.index = LocationAfter(tDelta, 1, tIndex, 0, tIndex, TRUE)

\* C7 as stated: for op = [Retain(k), Insert(s)] the result is p + len(s)
\* whenever k <= p, and p whenever p < k.
C7_InsertAtOrBeforeShifts ==
  (tResult.kind = "position" /\ IsRetainInsert(tDelta))
    => tResult.index =
         IF tDelta[1].n <= tIndex THEN tIndex + Len(tDelta[2].s) ELSE tIndex

\* C7 amended: for op = [Retain(k), Insert(s)] the result is p + len(s)
\* whenever k < p, and p whenever p <= k (an insertion exactly at p leaves
\* p where it is).
C7_InsertStrictlyBeforeShifts ==
  (tResult.kind = "position" /\ IsRetainInsert(tDelta))
    => tResult.index =
         IF tDelta[1].n < tIndex THEN tIndex + Len(tDelta[2].s) ELSE tIndex

C7_Witness ==
  /\ tDelta = <<Retain(2), Insert(<<"x", "x", "x">>)>>
  /\ tIndex = 2
  /\ tResult = [kind |-> "position", index |-> 2, length |-> 0]

\* C8: for op = [Retain(k), Delete(n)] the result is p - n if k + n <= p,
\* k if k < p < k + n, and p if p <= k.
C8_DeletionContainment ==
  (tResult.kind = "position" /\ IsRetainDelete(tDelta))
    => LET k == tDelta[1].n
           n == tDelta[2].n
       IN tResult.index =
            IF k + n <= tIndex THEN tIndex - n
            ELSE IF k < tIndex THEN k
            ELSE tIndex

C8_Witness ==
  /\ tDelta = <<Retain(5), Delete(3)>>
  /\ tIndex = 6
  /\ tResult = [kind |-> "position", index |-> 5, length |-> 0]

\* C9: transformRange({index, length}, op) is {T(index), max(0,
\* T(index+length) - T(index))}; its length is never negative, and a range
\* lying entirely inside a deleted span comes out with length 0.
C9_RangeTransform ==
  (tResult.kind = "range" /\ WellFormed(tDelta))
    => /\ tResult.index = transformCursorPosition(tIndex, tDelta)
       /\ tResult.length =
            Max(0, transformCursorPosition(tIndex + tLength, tDelta)
                     - transformCursorPosition(tIndex, tDelta))
       /\ tResult.length >= 0
       /\ InsideDeletedSpan(tIndex, tLength, tDelta) => tResult.length = 0

\* C10: transformCursorPosition(p, [Retain(len)]) = p for every p >= 0 and
\* every len >= 0, and likewise for the empty operation sequence.
C10_NoOpIdentity ==
  (/\ tResult.kind = "position"
   /\ \/ tDelta = <<>>
      \/ Len(tDelta) = 1 /\ tDelta[1].t = "retain")
    => tResult.index = tIndex

C10_Witness ==
  /\ tDelta = <<Retain(3)>>
  /\ tIndex = 5
  /\ tResult = [kind |-> "position", index |-> 5, length |-> 0]

\* C36: for a well-formed operation sequence and positions p <= q,
\* transformCursorPosition(p, op) <= transformCursorPosition(q, op).
C36_PositionTransformMonotone ==
  (tResult.kind = "position" /\ WellFormed(tDelta))
    => \A q \in tIndex..MaxPos :
         tResult.index <= transformCursorPosition(q, tDelta)

\* the units an operation sequence deletes
RECURSIVE DeletedLength(_)
DeletedLength(delta) ==
  IF delta = <<>> THEN 0
  ELSE (IF Head(delta).t = "delete" THEN Head(delta).n ELSE 0)
         + DeletedLength(Tail(delta))

\* C37: for a document of length L, an operation sequence well-formed on it
\* and a position 0 <= p <= L, transformCursorPosition(p, op) is at least 0
\* and at most the length of the document after op (L plus the inserted
\* minus the deleted units; it is enough to take the shortest such document).
C37_PositionStaysInside ==
  (tResult.kind = "position" /\ WellFormed(tDelta))
    => LET L == Max(tIndex, BaseLength(tDelta))
       IN /\ 0 <= tResult.index
          /\ tResult.index <= L + ContentLength(tDelta) - DeletedLength(tDelta)

====
